---- MODULE Spec2Model ----
(***************************************************************************)
(* A model of mlx/fast.cpp, the fused operators of mlx::core::fast, and of *)
(* MetalKernel.template of python/src/fast.cpp.                            *)
(*                                                                         *)
(* Every public operator of the file validates its arguments, builds a     *)
(* fallback closure, and then either constructs a primitive node (GPU      *)
(* stream) or runs the fallback at once (any other stream).  Each          *)
(* component of the file has a variable holding the record of its latest   *)
(* call, and a specification that drives it:                               *)
(*                                                                         *)
(*   SpecCustom    Custom::vjp, Custom::jvp                                *)
(*   SpecDispatch  rms_norm, layer_norm, rope, affine_quantize (both       *)
(*                 overloads), affine_dequantize: validation and dispatch  *)
(*   SpecRope      the rope fallback, forward and inverse                  *)
(*   SpecRopeNode  rope on the GPU stream, RoPE::vjp, RoPE::is_equivalent  *)
(*   SpecSdpa      scaled_dot_product_attention                            *)
(*   SpecPack      the 32-bit packing of pack_and_quantize and the unpack  *)
(*                 loop of affine_dequantize                               *)
(*   SpecCodec     affine_quantize, re-quantize and affine_dequantize on   *)
(*                 tensors with data                                       *)
(*   SpecEquiv     is_equivalent of the six node kinds                     *)
(*   SpecClosure   the invocations of a fallback closure, during and after *)
(*                 the call that built it                                  *)
(*   SpecKernel    MetalKernel.template and custom_kernel                  *)
(*   SpecNormVjp   LayerNorm::vjp and the fallback of its gradient node    *)
(***************************************************************************)
EXTENDS Integers, Sequences, FiniteSets, TLC

VARIABLES
    custom,   \* the latest Custom::vjp / Custom::jvp call
    call,     \* the latest call of a dispatching operator
    ropeS,    \* the tensor row and the RoPE node of the rope component
    sdpa,     \* the latest scaled_dot_product_attention call
    pack,     \* the packing codec: levels, packed word, unpacked fields
    codec,    \* the quantization codec: w and what was computed from it
    prim,     \* a primitive node or closure and the latest call of one of its methods
    kernel    \* the custom kernel: its template_args and its latest call

vars == <<custom, call, ropeS, sdpa, pack, codec, prim, kernel>>

----------------------------------------------------------------------------
(* Generic helpers.                                                        *)

Abs(x) == IF x < 0 THEN -x ELSE x

Max2(a, b) == IF a >= b THEN a ELSE b

Range(s) == {s[i] : i \in 1..Len(s)}

\* All sequences over S of length 0..n.
SeqsUpTo(S, n) == UNION {[1..k -> S] : k \in 0..n}

Injective(s) == \A i, j \in 1..Len(s) : i # j => s[i] # s[j]

\* The value every component holds before its first call.
Idle == [op |-> "none"]

----------------------------------------------------------------------------
(* Custom::vjp and Custom::jvp (fast.cpp 13-43).                           *)
(*                                                                         *)
(* Indices are 0-based as in the source; sequences are 1-based, so         *)
(* element i of a vector v is v[i + 1].  Arrays are symbolic: the gradient *)
(* of the fallback with respect to input i is <<"grad", i>>, the k-th      *)
(* supplied tangent <<"tan", k>>, zeros_like(primals[i]) <<"zeros", i>>.   *)

MaxPrimals == 4

\* mlx::core::vjp(fallback_, primals, cotangents): one gradient per primal.
engine_vjp(n) == [i \in 1..n |-> <<"grad", i - 1>>]

\* for (int i = 0, j = 0; i < vjps.size(); ++i) { if (j < argnums.size() &&
\*   i == argnums[j]) { vjp_outs.push_back(vjps[i]); j++; } }
RECURSIVE vjp_loop(_, _, _, _, _)
vjp_loop(vjps, argnums, i, j, vjp_outs) ==
    IF i >= Len(vjps) THEN vjp_outs
    ELSE IF j < Len(argnums) /\ i = argnums[j + 1]
         THEN vjp_loop(vjps, argnums, i + 1, j + 1, Append(vjp_outs, vjps[i + 1]))
         ELSE vjp_loop(vjps, argnums, i + 1, j, vjp_outs)

Custom_vjp(n, argnums) == vjp_loop(engine_vjp(n), argnums, 0, 0, <<>>)

\* for (int i = 0, j = 0; i < primals.size(); i++) { if (j < argnums.size()
\*   && i == argnums[j]) all_tangents.emplace_back(tangents[j++]);
\*   else all_tangents.emplace_back(zeros_like(primals[i])); }
RECURSIVE jvp_loop(_, _, _, _, _)
jvp_loop(n, argnums, i, j, all_tangents) ==
    IF i >= n THEN all_tangents
    ELSE IF j < Len(argnums) /\ i = argnums[j + 1]
         THEN jvp_loop(n, argnums, i + 1, j + 1, Append(all_tangents, <<"tan", j>>))
         ELSE jvp_loop(n, argnums, i + 1, j, Append(all_tangents, <<"zeros", i>>))

Custom_jvp(n, argnums) == jvp_loop(n, argnums, 0, 0, <<>>)

\* The argnums a caller may pass: distinct valid indices, in any order.
ArgLists(n) == {a \in SeqsUpTo(0..(n - 1), n) : Injective(a)}

CustomVjp ==
    \E n \in 1..MaxPrimals : \E argnums \in ArgLists(n) :
        /\ custom' = [op |-> "vjp", n |-> n, argnums |-> argnums,
                      outs |-> Custom_vjp(n, argnums)]
        /\ UNCHANGED <<call, ropeS, sdpa, pack, codec, prim, kernel>>

CustomJvp ==
    \E n \in 1..MaxPrimals : \E argnums \in ArgLists(n) :
        /\ custom' = [op |-> "jvp", n |-> n, argnums |-> argnums,
                      outs |-> Custom_jvp(n, argnums)]
        /\ UNCHANGED <<call, ropeS, sdpa, pack, codec, prim, kernel>>

----------------------------------------------------------------------------
(* 32-bit unsigned words.                                                  *)
(*                                                                         *)
(* A uint32 is held as two 16-bit limbs <<hi, lo>> (value hi * 2^16 + lo), *)
(* so that every operation wraps modulo 2^32 exactly as the C++ type does. *)

Pow2(k) == 2 ^ k

Limb == Pow2(16)

u32(n) == <<n \div Limb, n % Limb>>

\* x * y modulo 2^16, for 16-bit x and y.
MulMod16(x, y) == ((x * (y % 256)) + ((x * (y \div 256)) % 256) * 256) % Limb

\* The high 16 bits of the 32-bit product x * y, for 16-bit x and y.
MulHigh16(x, y) ==
    ((x * (y % 256)) + ((x * (y \div 256)) % 256) * 256) \div Limb
        + (x * (y \div 256)) \div 256

\* multiply on uint32 arrays: the product modulo 2^32.
u32_multiply(a, b) ==
    <<(MulHigh16(a[2], b[2]) + MulMod16(a[1], b[2]) + MulMod16(a[2], b[1])) % Limb,
      MulMod16(a[2], b[2])>>

\* add on uint32 arrays: the sum modulo 2^32.
u32_add(a, b) ==
    <<(a[1] + b[1] + ((a[2] + b[2]) \div Limb)) % Limb, (a[2] + b[2]) % Limb>>

\* left_shift(w, k) on uint32, 0 <= k < 32: bits shifted past bit 31 are lost.
left_shift(w, k) ==
    IF k < 16
    THEN <<((w[1] * Pow2(k)) + ((w[2] * Pow2(k)) \div Limb)) % Limb,
           (w[2] * Pow2(k)) % Limb>>
    ELSE <<(w[2] * Pow2(k - 16)) % Limb, 0>>

\* right_shift(w, k) on uint32, 0 <= k < 32: logical shift.
right_shift(w, k) ==
    IF k < 16
    THEN <<w[1] \div Pow2(k), (w[2] \div Pow2(k)) + (w[1] % Pow2(k)) * Pow2(16 - k)>>
    ELSE <<0, w[1] \div Pow2(k - 16)>>

\* Bit k (0 = least significant) of a uint32.
u32_bit(w, k) == IF k < 16 THEN (w[2] \div Pow2(k)) % 2 ELSE (w[1] \div Pow2(k - 16)) % 2

----------------------------------------------------------------------------
(* The packing of pack_and_quantize and the unpacking of affine_dequantize. *)

\* int el_per_int = 32 / bits;
el_per_int(bits) == 32 \div bits

\* array shifts = power(array(2, uint32), arange(0, 32, bits, uint32, s), s);
shifts(bits) == [i \in 1..el_per_int(bits) |-> u32(Pow2(bits * (i - 1)))]

\* sum(multiply(packed_w, shifts), axis 2) for one row of el_per_int levels:
\* the uint32 sum of q[i] * shifts[i].
RECURSIVE sum_products(_, _, _)
sum_products(q, sh, i) ==
    IF i = 0 THEN u32(0)
    ELSE u32_add(sum_products(q, sh, i - 1), u32_multiply(u32(q[i]), sh[i]))

pack_word_mutant(q, bits) ==
    sum_products(q, [i \in 1..el_per_int(bits) |-> u32(Pow2((bits - 1) * (i - 1)))],
                 el_per_int(bits))

pack_word(q, bits) == sum_products(q, shifts(bits), el_per_int(bits))

\* for (int start = 0; start < 32; start += bits) parts.push_back(
\*   right_shift(left_shift(w, 32 - (start + bits)), 32 - bits));
\* The fields come out as uint32 values below 2^bits.
unpack_word(w, bits) ==
    [i \in 1..el_per_int(bits) |->
        right_shift(left_shift(w, 32 - ((i - 1) * bits + bits)), 32 - bits)[2]]

\* Level sequences for one word: a background level (0 or the highest)
\* everywhere except at up to PackSpecials positions, which hold a sampled
\* level (1 or the highest but one).
PackSpecials == 2

SampleLevels(bits) == {1, Pow2(bits) - 2}

LevelWords(bits) ==
    LET n == el_per_int(bits)
        P == {S \in SUBSET (1..n) : Cardinality(S) <= PackSpecials}
    IN UNION {{[i \in 1..n |-> IF i \in S THEN f[i] ELSE b] :
                   f \in [S -> SampleLevels(bits)]} :
                 S \in P, b \in {0, Pow2(bits) - 1}}

InitPack ==
    /\ \E bits \in {2, 4, 8} : \E q \in LevelWords(bits) :
           pack = [op |-> "levels", bits |-> bits, q |-> q]
    /\ custom = Idle /\ call = Idle /\ ropeS = Idle /\ sdpa = Idle /\ codec = Idle
    /\ prim = Idle /\ kernel = Idle

\* The packing step of pack_and_quantize on one word's worth of levels.
PackLevels ==
    /\ pack.op = "levels"
    /\ pack' = [op |-> "packed", bits |-> pack.bits, q |-> pack.q,
                word |-> pack_word(pack.q, pack.bits)]
    /\ UNCHANGED <<custom, call, ropeS, sdpa, codec, prim, kernel>>

\* The unpack loop of affine_dequantize on the packed word.
UnpackWord ==
    /\ pack.op = "packed"
    /\ pack' = [op |-> "unpacked", bits |-> pack.bits, q |-> pack.q,
                word |-> pack.word,
                fields |-> unpack_word(pack.word, pack.bits)]
    /\ UNCHANGED <<custom, call, ropeS, sdpa, codec, prim, kernel>>

NextPack == PackLevels \/ UnpackWord

SpecPack == InitPack /\ [][NextPack]_vars

\* C1: packing is bit-exact and invertible.  The packed word is
\* sum(q_i * 2^(bits*i)): bit bits*i + b of the word is bit b of level q_i, for
\* every field i and every b < bits (so no field spills into another and
\* nothing is lost past bit 31), and the unpack step returns exactly q_i as
\* the i-th field, in the original order.
C1_PackUnpackExact ==
    /\ pack.op \in {"packed", "unpacked"} =>
           \A i \in 0..(el_per_int(pack.bits) - 1) : \A b \in 0..(pack.bits - 1) :
               u32_bit(pack.word, pack.bits * i + b)
                   = (pack.q[i + 1] \div Pow2(b)) % 2
    /\ pack.op = "unpacked" => pack.fields = pack.q

\* C1's case: a word whose top field and lowest field are both non-zero
\* (the packed value exceeds 2^31) has been packed and unpacked.
C1_Witness ==
    /\ pack.op = "unpacked"
    /\ pack.q[el_per_int(pack.bits)] = Pow2(pack.bits) - 1
    /\ pack.q[1] = 1
    /\ pack.fields = pack.q

----------------------------------------------------------------------------
(* Exact rationals <<n, d>>, d > 0, in lowest terms, for the real-valued   *)
(* arithmetic of the fallbacks.                                            *)

RECURSIVE Gcd(_, _)
Gcd(a, b) == IF b = 0 THEN a ELSE Gcd(b, a % b)

Rat(n, d) ==
    LET g == Gcd(Abs(n), Abs(d))
        sg == IF d < 0 THEN -1 ELSE 1
    IN <<(sg * n) \div g, (sg * d) \div g>>

RInt(n) == <<n, 1>>

add(a, b) == IF a[2] = b[2] THEN Rat(a[1] + b[1], a[2])
             ELSE Rat(a[1] * b[2] + b[1] * a[2], a[2] * b[2])

negative(a) == <<-a[1], a[2]>>

subtract(a, b) == add(a, negative(b))

multiply(a, b) == Rat(a[1] * b[1], a[2] * b[2])

\* divide; a zero divisor gives the non-finite value <<a[1], 0>> (inf or nan).
divide(a, b) == IF b[1] = 0 THEN <<a[1], 0>> ELSE Rat(a[1] * b[2], a[2] * b[1])

less(a, b) == a[1] * b[2] < b[1] * a[2]

less_equal(a, b) == a[1] * b[2] <= b[1] * a[2]

abs(a) == <<Abs(a[1]), a[2]>>

maximum(a, b) == IF less(a, b) THEN b ELSE a

minimum(a, b) == IF less(b, a) THEN b ELSE a

\* round: to the nearest integer, halves to the even one (std::rint).
round(a) ==
    LET f == a[1] \div a[2]          \* floor, since a[2] > 0
        r2 == 2 * (a[1] - f * a[2])  \* twice the remainder
    IN IF r2 < a[2] THEN f
       ELSE IF r2 > a[2] THEN f + 1
       ELSE IF f % 2 = 0 THEN f ELSE f + 1

----------------------------------------------------------------------------
(* rope: the fallback (fast.cpp 341-404).                                  *)
(*                                                                         *)
(* x is the input after reshape(inputs[0], {-1, T, D}): x[n][t][d], held   *)
(* as nested sequences.  The tables coss and sins hold cos(theta) and      *)
(* sin(theta) for each position and each i < dims / 2; they are drawn from *)
(* exact points of the unit circle.                                        *)

\* Points (cos, sin) with cos^2 + sin^2 = 1.
UnitPoints ==
    << <<RInt(1), RInt(0)>>, <<RInt(0), RInt(1)>>, <<Rat(3, 5), Rat(4, 5)>>,
       <<Rat(-4, 5), Rat(3, 5)>>, <<Rat(5, 13), Rat(-12, 13)>>,
       <<Rat(-15, 17), Rat(-8, 17)>> >>

\* auto coss = cos(theta, s); auto sins = sin(theta, s);  (shape [T, dims/2])
AnglePoint(seed, T, half, t, i) ==
    UnitPoints[((seed + (t - 1) * half + (i - 1)) % Len(UnitPoints)) + 1]

coss(seed, T, half) ==
    [t \in 1..T |-> [i \in 1..half |-> AnglePoint(seed, T, half, t, i)[1]]]

sins(seed, T, half) ==
    [t \in 1..T |-> [i \in 1..half |-> AnglePoint(seed, T, half, t, i)[2]]]

apply_rope_mutant(x1, x2, c, sn, forward) ==
    IF forward
    THEN <<subtract(multiply(x1, c), multiply(x2, sn)),
           add(multiply(x1, sn), multiply(x2, c))>>
    ELSE <<subtract(multiply(x1, c), multiply(x2, sn)),
           add(multiply(x2, c), multiply(x1, sn))>>

\* auto apply_rope = [forward, s](x1, x2, coss, sins) { ... }, on one element.
apply_rope(x1, x2, c, sn, forward) ==
    IF forward
    THEN <<subtract(multiply(x1, c), multiply(x2, sn)),
           add(multiply(x1, sn), multiply(x2, c))>>
    ELSE <<add(multiply(x2, sn), multiply(x1, c)),
           subtract(multiply(x2, c), multiply(x1, sn))>>

\* The feature row of one (n, t) under the traditional layout: x1 and x2 are
\* the strided slices x[0:dims:2] and x[1:dims:2]; the two outputs are
\* stacked on a new last axis and flattened (interleaved), and the features
\* from dims on are concatenated behind.
rope_row_traditional(row, dims, forward, c, sn) ==
    LET half == dims \div 2
        x1 == [i \in 1..half |-> row[2 * (i - 1) + 1]]
        x2 == [i \in 1..half |-> row[2 * (i - 1) + 2]]
        outs == [i \in 1..half |-> apply_rope(x1[i], x2[i], c[i], sn[i], forward)]
        out == [d \in 1..dims |-> outs[((d - 1) \div 2) + 1][((d - 1) % 2) + 1]]
    IN IF dims < Len(row) THEN out \o SubSeq(row, dims + 1, Len(row)) ELSE out

\* The feature row of one (n, t) under the split-half layout: x1 = x[0:half],
\* x2 = x[half:dims]; outs = {o1, o2[, x[dims:]]} concatenated on the last axis.
rope_row_split(row, dims, forward, c, sn) ==
    LET half == dims \div 2
        x1 == SubSeq(row, 1, half)
        x2 == SubSeq(row, half + 1, dims)
        outs == [i \in 1..half |-> apply_rope(x1[i], x2[i], c[i], sn[i], forward)]
        o1 == [i \in 1..half |-> outs[i][1]]
        o2 == [i \in 1..half |-> outs[i][2]]
    IN IF dims < Len(row) THEN o1 \o o2 \o SubSeq(row, dims + 1, Len(row))
       ELSE o1 \o o2

rope_fallback(x, dims, traditional, forward, seed) ==
    LET T == Len(x[1])
        half == dims \div 2
        c == coss(seed, T, half)
        sn == sins(seed, T, half)
    IN [n \in 1..Len(x) |-> [t \in 1..T |->
           IF traditional
           THEN rope_row_traditional(x[n][t], dims, forward, c[t], sn[t])
           ELSE rope_row_split(x[n][t], dims, forward, c[t], sn[t])]]

\* Inputs: x[n][t][d] = first + step * (flat index), as exact rationals.
MaxBatch == 2
MaxSeq == 2
MaxFeat == 5

RopeInput(N, T, D, first, step) ==
    [n \in 1..N |-> [t \in 1..T |-> [d \in 1..D |->
        RInt(first + step * (((n - 1) * T + (t - 1)) * D + (d - 1)))]]]

InitRope ==
    /\ \E N \in 1..MaxBatch, T \in 1..MaxSeq, D \in 2..MaxFeat :
       \E dims \in {k \in 2..D : k % 2 = 0} :
       \E traditional \in BOOLEAN, seed \in 0..(Len(UnitPoints) - 1) :
       \E first \in {-3, 1}, step \in {1, -2} :
           ropeS = [op |-> "input", dims |-> dims, traditional |-> traditional,
                    seed |-> seed, x |-> RopeInput(N, T, D, first, step),
                    y |-> <<>>, z |-> <<>>]
    /\ custom = Idle /\ call = Idle /\ sdpa = Idle /\ pack = Idle /\ codec = Idle
    /\ prim = Idle /\ kernel = Idle

\* rope(x, ..., forward = true) evaluated by its fallback.
RopeForward ==
    /\ ropeS.op = "input"
    /\ ropeS' = [ropeS EXCEPT !.op = "rotated",
                     !.y = rope_fallback(ropeS.x, ropeS.dims, ropeS.traditional,
                                         TRUE, ropeS.seed)]
    /\ UNCHANGED <<custom, call, sdpa, pack, codec, prim, kernel>>

\* rope(y, ..., forward = false) on the rotated tensor, same parameters.
RopeInverse ==
    /\ ropeS.op = "rotated"
    /\ ropeS' = [ropeS EXCEPT !.op = "restored",
                     !.z = rope_fallback(ropeS.y, ropeS.dims, ropeS.traditional,
                                         FALSE, ropeS.seed)]
    /\ UNCHANGED <<custom, call, sdpa, pack, codec, prim, kernel>>

NextRope == RopeForward \/ RopeInverse

SpecRope == InitRope /\ [][NextRope]_vars

\* C7: forward then inverse rotation returns every rotated pair (a, b), in
\* both layouts, for every cos/sin pair on the unit circle; features at index
\* >= dims are unchanged, at their original index, after each application.
C7_RopeRoundTrip ==
    /\ ropeS.op = "restored" => ropeS.z = ropeS.x
    /\ ropeS.op \in {"rotated", "restored"} =>
           \A n \in 1..Len(ropeS.x) : \A t \in 1..Len(ropeS.x[n]) :
               /\ Len(ropeS.y[n][t]) = Len(ropeS.x[n][t])
               /\ \A d \in (ropeS.dims + 1)..Len(ropeS.x[n][t]) :
                      ropeS.y[n][t][d] = ropeS.x[n][t][d]
    /\ ropeS.op = "restored" =>
           \A n \in 1..Len(ropeS.x) : \A t \in 1..Len(ropeS.x[n]) :
               \A d \in (ropeS.dims + 1)..Len(ropeS.x[n][t]) :
                   ropeS.z[n][t][d] = ropeS.y[n][t][d]

\* C7's case: a tensor with trailing unrotated features has been rotated by
\* a non-trivial angle (the rotated tensor differs from the input) and
\* restored by the inverse rotation.
C7_Witness ==
    /\ ropeS.op = "restored"
    /\ ropeS.dims < Len(ropeS.x[1][1])
    /\ ropeS.y # ropeS.x
    /\ ropeS.z = ropeS.x

----------------------------------------------------------------------------
(* Arrays, streams, closures and nodes, as the public operators see them.  *)
(*                                                                         *)
(* An array is described by its shape and dtype: [shape |-> <<..>>,        *)
(* dtype |-> "float32"].  An optional array is [has_value |-> FALSE] or    *)
(* [has_value |-> TRUE, value |-> array].  The result of a call is         *)
(*   [threw |-> std::invalid_argument was thrown,                          *)
(*    nodes |-> the primitive nodes the call constructed, in order,        *)
(*    ran   |-> the fallback invocations the call made, in order]          *)
(* where a node records its kind, stream, fallback closure and parameters  *)
(* and an invocation records the closure and the inputs it was applied to. *)

ndim(a) == Len(a.shape)

Arr(shape, dtype) == [shape |-> shape, dtype |-> dtype]

nullopt == [has_value |-> FALSE]

Some(a) == [has_value |-> TRUE, value |-> a]

floating == {"float16", "bfloat16", "float32"}

\* result_type(a, b): the promoted type of two dtypes.
result_type(a, b) ==
    IF a = b THEN a
    ELSE IF "float32" \in {a, b} THEN "float32"
    ELSE IF {a, b} = {"float16", "bfloat16"} THEN "float32"
    ELSE IF a \in floating THEN a
    ELSE IF b \in floating THEN b
    ELSE "int64"

\* astype(a, t)
astype(a, t) == Arr(a.shape, t)

\* to_stream(s): the stream of a device.
to_stream(device) == [device |-> device]

Throw == [threw |-> TRUE, nodes |-> <<>>, ran |-> <<>>]

\* return array(..., std::make_shared<Kind>(s, fallback, ...), inputs);
Construct(node) == [threw |-> FALSE, nodes |-> <<node>>, ran |-> <<>>]

\* return fallback(inputs)[...];
RunFallback(closure, inputs) ==
    [threw |-> FALSE, nodes |-> <<>>,
     ran |-> <<[closure |-> closure, inputs |-> inputs]>>]

rms_norm(x, weight, eps, device) ==
    IF ndim(x) = 0 THEN Throw
    ELSE IF ndim(weight) # 1 THEN Throw
    ELSE LET out_type == result_type(x.dtype, weight.dtype) IN
    IF out_type \notin floating THEN Throw
    ELSE LET s == to_stream(device)
             fallback == [fn |-> "rms_norm", eps |-> eps, out_type |-> out_type,
                          s |-> s]
    IN IF s.device = "gpu"
       THEN Construct([kind |-> "RMSNorm", stream |-> s, fallback |-> fallback,
                       eps |-> eps,
                       inputs |-> <<astype(x, out_type), astype(weight, out_type)>>])
       ELSE RunFallback(fallback, <<x, weight>>)

layer_norm_mutant(x, weight, bias, eps, device) ==
    IF ndim(x) = 0 THEN Throw
    ELSE IF weight.has_value /\ ndim(weight.value) # 1 THEN Throw
    ELSE LET out_type ==
                 IF weight.has_value
                 THEN IF bias.has_value
                      THEN result_type(result_type(x.dtype, weight.value.dtype),
                                       bias.value.dtype)
                      ELSE result_type(x.dtype, weight.value.dtype)
                 ELSE x.dtype
    IN IF out_type \notin floating THEN Throw
    ELSE LET s == to_stream(device)
             fallback == [fn |-> "layer_norm", has_weight |-> weight.has_value,
                          has_bias |-> bias.has_value, eps |-> eps,
                          out_type |-> out_type, s |-> s]
             passed_weight == astype(IF weight.has_value THEN weight.value
                                     ELSE Arr(<<>>, out_type), out_type)
             passed_bias == astype(IF bias.has_value THEN bias.value
                                   ELSE Arr(<<>>, out_type), out_type)
    IN IF s.device = "gpu"
       THEN Construct([kind |-> "LayerNorm", stream |-> s, fallback |-> fallback,
                       eps |-> eps,
                       inputs |-> <<astype(x, out_type), passed_weight, passed_bias>>])
       ELSE RunFallback(fallback, <<x, passed_weight, passed_bias>>)

layer_norm(x, weight, bias, eps, device) ==
    IF ndim(x) = 0 THEN Throw
    ELSE IF weight.has_value /\ ndim(weight.value) # 1 THEN Throw
    ELSE IF bias.has_value /\ ndim(bias.value) # 1 THEN Throw
    ELSE LET out_type ==
                 IF weight.has_value
                 THEN IF bias.has_value
                      THEN result_type(result_type(x.dtype, weight.value.dtype),
                                       bias.value.dtype)
                      ELSE result_type(x.dtype, weight.value.dtype)
                 ELSE x.dtype
    IN IF out_type \notin floating THEN Throw
    ELSE LET s == to_stream(device)
             fallback == [fn |-> "layer_norm", has_weight |-> weight.has_value,
                          has_bias |-> bias.has_value, eps |-> eps,
                          out_type |-> out_type, s |-> s]
             passed_weight == astype(IF weight.has_value THEN weight.value
                                     ELSE Arr(<<>>, out_type), out_type)
             passed_bias == astype(IF bias.has_value THEN bias.value
                                   ELSE Arr(<<>>, out_type), out_type)
    IN IF s.device = "gpu"
       THEN Construct([kind |-> "LayerNorm", stream |-> s, fallback |-> fallback,
                       eps |-> eps,
                       inputs |-> <<astype(x, out_type), passed_weight, passed_bias>>])
       ELSE RunFallback(fallback, <<x, passed_weight, passed_bias>>)

rope_mutant(x, dims, traditional, base, scale, offset, forward, device) ==
    IF ndim(x) < 3 THEN Throw
    ELSE LET stream == to_stream(device)
             fallback == [fn |-> "rope", dims |-> dims, traditional |-> traditional,
                          base |-> base, scale |-> scale, offset |-> offset,
                          forward |-> forward, s |-> stream]
    IN [threw |-> FALSE,
        nodes |-> <<[kind |-> "RoPE", stream |-> stream, fallback |-> fallback,
                     dims |-> dims, traditional |-> traditional, base |-> base,
                     scale |-> scale, offset |-> offset, forward |-> forward,
                     inputs |-> <<x>>]>>,
        ran |-> IF stream.device = "gpu" THEN <<>>
                ELSE <<[closure |-> fallback, inputs |-> <<x>>]>>]

rope(x, dims, traditional, base, scale, offset, forward, device) ==
    IF ndim(x) < 3 THEN Throw
    ELSE LET stream == to_stream(device)
             fallback == [fn |-> "rope", dims |-> dims, traditional |-> traditional,
                          base |-> base, scale |-> scale, offset |-> offset,
                          forward |-> forward, s |-> stream]
    IN IF stream.device = "gpu"
       THEN Construct([kind |-> "RoPE", stream |-> stream, fallback |-> fallback,
                       dims |-> dims, traditional |-> traditional, base |-> base,
                       scale |-> scale, offset |-> offset, forward |-> forward,
                       inputs |-> <<x>>])
       ELSE RunFallback(fallback, <<x>>)

last_dim(a) == a.shape[Len(a.shape)]

quantize_invalid_mutant(w, group_size, bits) ==
    IF group_size # 32 /\ group_size # 64 /\ group_size # 128 THEN TRUE
    ELSE IF bits # 2 /\ bits # 4 /\ bits # 8 THEN TRUE
    ELSE IF ndim(w) < 2 THEN TRUE
    ELSE last_dim(w) < 32 * el_per_int(bits)

\* The validation of affine_quantize(w, group_size, bits): TRUE when one of
\* the five checks throws.
quantize_invalid(w, group_size, bits) ==
    IF group_size # 32 /\ group_size # 64 /\ group_size # 128 THEN TRUE
    ELSE IF bits # 2 /\ bits # 4 /\ bits # 8 THEN TRUE
    ELSE IF ndim(w) < 2 THEN TRUE
    ELSE IF (last_dim(w) % group_size) # 0 THEN TRUE
    ELSE last_dim(w) < 32 * el_per_int(bits)

affine_quantize(w, group_size, bits, device) ==
    LET s == to_stream(device) IN
    IF quantize_invalid(w, group_size, bits) THEN Throw
    ELSE LET fallback == [fn |-> "affine_quantize", group_size |-> group_size,
                          bits |-> bits, el_per_int |-> el_per_int(bits), s |-> s]
    IN IF s.device = "gpu"
       THEN Construct([kind |-> "AffineQuantize", stream |-> s,
                       fallback |-> fallback, group_size |-> group_size,
                       bits |-> bits, dequantize |-> FALSE, inputs |-> <<w>>])
       ELSE RunFallback(fallback, <<w>>)

\* affine_quantize(w, scales, biases, group_size, bits): no argument is
\* checked.  (bits > 0 here; 32 / bits with bits = 0 is not modelled.)
affine_quantize_with(w, scales, biases, group_size, bits, device) ==
    LET s == to_stream(device)
        fallback == [fn |-> "affine_quantize(scales, biases)",
                     group_size |-> group_size, bits |-> bits,
                     el_per_int |-> el_per_int(bits), s |-> s]
    IN IF s.device = "gpu"
       THEN Construct([kind |-> "AffineQuantize", stream |-> s,
                       fallback |-> fallback, group_size |-> group_size,
                       bits |-> bits, dequantize |-> FALSE,
                       inputs |-> <<w, scales, biases>>])
       ELSE RunFallback(fallback, <<w, scales, biases>>)

\* wshape.back() = -1: the shape with its last extent replaced.
with_back(shape, v) == [shape EXCEPT ![Len(shape)] = v]

dequantize_invalid_mutant(w, scales, biases, group_size, bits) ==
    IF bits <= 0 THEN TRUE
    ELSE IF group_size <= 0 THEN TRUE
    ELSE IF ndim(w) < 2 \/ ndim(scales) < 2 \/ ndim(biases) < 2 THEN TRUE
    ELSE IF with_back(w.shape, -1) # with_back(scales.shape, -1)
            \/ with_back(w.shape, -1) # with_back(biases.shape, -1) THEN TRUE
    ELSE last_dim(w) * el_per_int(bits) # last_dim(scales) * group_size

\* The validation of affine_dequantize: TRUE when one of the checks throws.
dequantize_invalid(w, scales, biases, group_size, bits) ==
    IF bits <= 0 THEN TRUE
    ELSE IF group_size <= 0 THEN TRUE
    ELSE IF ndim(w) < 2 \/ ndim(scales) < 2 \/ ndim(biases) < 2 THEN TRUE
    ELSE IF with_back(w.shape, -1) # with_back(scales.shape, -1)
            \/ with_back(w.shape, -1) # with_back(biases.shape, -1) THEN TRUE
    ELSE IF w.dtype # "uint32" THEN TRUE
    ELSE last_dim(w) * el_per_int(bits) # last_dim(scales) * group_size

affine_dequantize(w, scales, biases, group_size, bits, device) ==
    IF dequantize_invalid(w, scales, biases, group_size, bits) THEN Throw
    ELSE LET s == to_stream(device)
             wshape == with_back(w.shape, -1)
             sshape == with_back(scales.shape, -1)
             fallback == [fn |-> "affine_dequantize", wshape |-> wshape,
                          sshape |-> sshape, group_size |-> group_size,
                          bits |-> bits, el_per_int |-> el_per_int(bits), s |-> s]
    IN IF s.device = "gpu"
       THEN Construct([kind |-> "AffineQuantize", stream |-> s,
                       fallback |-> fallback, group_size |-> group_size,
                       bits |-> bits, dequantize |-> TRUE,
                       inputs |-> <<w, scales, biases>>])
       ELSE RunFallback(fallback, <<w, scales, biases>>)

----------------------------------------------------------------------------
(* RoPE::vjp and RoPE::is_equivalent (fast.cpp 428-459).                   *)

RoPE_vjp_mutant(node, cotangents) ==
    LET s == node.stream
        fallback == [fn |-> "rope", dims |-> node.dims,
                     traditional |-> node.traditional, base |-> node.base,
                     scale |-> node.scale, offset |-> node.offset,
                     forward |-> ~node.forward, s |-> s]
    IN Construct([kind |-> "RoPE", stream |-> s, fallback |-> fallback,
                  dims |-> node.dims, traditional |-> node.traditional,
                  base |-> node.base, scale |-> node.scale,
                  offset |-> node.offset, forward |-> node.forward,
                  inputs |-> cotangents])

\* The fallback of the gradient node calls rope(inputs[0], dims, traditional,
\* base, scale, offset, !forward, s); the node is built with !forward_.
RoPE_vjp(node, cotangents) ==
    LET s == node.stream
        fallback == [fn |-> "rope", dims |-> node.dims,
                     traditional |-> node.traditional, base |-> node.base,
                     scale |-> node.scale, offset |-> node.offset,
                     forward |-> ~node.forward, s |-> s]
    IN Construct([kind |-> "RoPE", stream |-> s, fallback |-> fallback,
                  dims |-> node.dims, traditional |-> node.traditional,
                  base |-> node.base, scale |-> node.scale,
                  offset |-> node.offset, forward |-> ~node.forward,
                  inputs |-> cotangents])

RoPE_is_equivalent(a, other) ==
    /\ a.dims = other.dims /\ a.base = other.base
    /\ a.scale = other.scale /\ a.traditional = other.traditional
    /\ a.offset = other.offset /\ a.forward = other.forward

----------------------------------------------------------------------------
(* The calls of the dispatching operators.                                 *)
(*                                                                         *)
(* A pending call [op |-> "pending", fn, args] is executed by the action   *)
(* of its operator, which leaves [op |-> "done", fn, args, res, chain]:    *)
(* res is the result of the call, chain the RoPE nodes derived so far.     *)

Devices == {"cpu", "gpu"}

Pending(fn, args) == [op |-> "pending", fn |-> fn, args |-> args]

Done(c, res, chain) ==
    [op |-> "done", fn |-> c.fn, args |-> c.args, res |-> res, chain |-> chain]

NormShapes == {<<>>, <<4>>, <<2, 4>>}

RmsNormCalls ==
    {Pending("rms_norm", [x |-> Arr(xs, xt), weight |-> Arr(ws, wt), eps |-> 1,
                          device |-> d]) :
        xs \in NormShapes, ws \in NormShapes, xt \in {"int32", "float16", "float32"},
        wt \in {"int32", "bfloat16"}, d \in Devices}

OptArrays(dtype) == {nullopt} \cup {Some(Arr(sh, dtype)) : sh \in NormShapes}

LayerNormCalls ==
    {Pending("layer_norm", [x |-> Arr(xs, xt), weight |-> w, bias |-> b, eps |-> 1,
                            device |-> d]) :
        xs \in {<<>>, <<2, 4>>}, xt \in {"int32", "float16"},
        w \in OptArrays("float16"), b \in OptArrays("float32"), d \in Devices}

RopeCalls ==
    {Pending("rope", [x |-> Arr(xs, "float32"), dims |-> dims, traditional |-> tr,
                      base |-> base, scale |-> scale, offset |-> offset,
                      forward |-> fw, device |-> d]) :
        xs \in {<<2, 4>>, <<1, 2, 4>>, <<1, 2, 2, 4>>}, dims \in {2, 4},
        tr \in BOOLEAN, base \in {500, 10000}, scale \in {1, 2},
        offset \in {0, 3}, fw \in BOOLEAN, d \in Devices}

QuantShapes == {<<128>>, <<2, 128>>, <<2, 100>>, <<2, 256>>, <<1, 2, 512>>}

QuantizeCalls ==
    {Pending("affine_quantize", [w |-> Arr(ws, "float32"), group_size |-> g,
                                 bits |-> b, device |-> d]) :
        ws \in QuantShapes \cup {<<>>, <<2, 160>>}, g \in {0, 16, 32, 64, 128},
        b \in {0, 2, 3, 4, 8}, d \in Devices}

\* The shape of scales and biases that goes with w: one entry for every
\* group_size-wide slice of the last axis.
GroupShape(ws, g) == with_back(ws, ws[Len(ws)] \div g)

\* Shapes of scales and biases that do not go with w.
OtherShapes(ws) == {with_back(ws, 1), <<7>>}

RequantizeCalls ==
    UNION {{Pending("affine_quantize(scales, biases)",
                    [w |-> Arr(ws, "float32"), scales |-> Arr(ss, "float32"),
                     biases |-> Arr(bs, "float32"), group_size |-> g, bits |-> b,
                     device |-> d]) :
               ss \in {GroupShape(ws, g)} \cup OtherShapes(ws),
               bs \in {GroupShape(ws, g)} \cup OtherShapes(ws),
               b \in {2, 4, 8}, d \in Devices} :
           ws \in QuantShapes, g \in {32, 64}}

DequantizeCalls ==
    UNION {{Pending("affine_dequantize",
                    [w |-> Arr(ws, wt), scales |-> Arr(ss, "float32"),
                     biases |-> Arr(bs, "float32"), group_size |-> g, bits |-> b,
                     device |-> d]) :
               ws \in {<<32>>, <<2, 32>>, <<1, 2, 32>>}, wt \in {"uint32", "float32"},
               bs \in {ss, <<2, 8>>, <<8>>}, g \in {0, 32, 64}, b \in {0, 2, 4, 8},
               d \in Devices} :
           ss \in {<<4>>, <<2, 4>>, <<2, 2>>, <<3, 4>>, <<1, 2, 4>>}}

InitDispatch ==
    /\ call \in RmsNormCalls \cup LayerNormCalls \cup RopeCalls \cup QuantizeCalls
                \cup RequantizeCalls \cup DequantizeCalls
    /\ custom = Idle /\ ropeS = Idle /\ sdpa = Idle /\ pack = Idle /\ codec = Idle
    /\ prim = Idle /\ kernel = Idle

CallRmsNorm ==
    /\ call.op = "pending" /\ call.fn = "rms_norm"
    /\ call' = Done(call, rms_norm(call.args.x, call.args.weight, call.args.eps,
                                   call.args.device), <<>>)
    /\ UNCHANGED <<custom, ropeS, sdpa, pack, codec, prim, kernel>>

CallLayerNorm ==
    /\ call.op = "pending" /\ call.fn = "layer_norm"
    /\ call' = Done(call, layer_norm(call.args.x, call.args.weight, call.args.bias,
                                     call.args.eps, call.args.device), <<>>)
    /\ UNCHANGED <<custom, ropeS, sdpa, pack, codec, prim, kernel>>

CallRope ==
    /\ call.op = "pending" /\ call.fn = "rope"
    /\ LET res == rope(call.args.x, call.args.dims, call.args.traditional,
                       call.args.base, call.args.scale, call.args.offset,
                       call.args.forward, call.args.device)
       IN call' = Done(call, res, res.nodes)
    /\ UNCHANGED <<custom, ropeS, sdpa, pack, codec, prim, kernel>>

CallQuantize ==
    /\ call.op = "pending" /\ call.fn = "affine_quantize"
    /\ call' = Done(call, affine_quantize(call.args.w, call.args.group_size,
                                          call.args.bits, call.args.device), <<>>)
    /\ UNCHANGED <<custom, ropeS, sdpa, pack, codec, prim, kernel>>

CallRequantize ==
    /\ call.op = "pending" /\ call.fn = "affine_quantize(scales, biases)"
    /\ call' = Done(call, affine_quantize_with(call.args.w, call.args.scales,
                              call.args.biases, call.args.group_size,
                              call.args.bits, call.args.device), <<>>)
    /\ UNCHANGED <<custom, ropeS, sdpa, pack, codec, prim, kernel>>

CallDequantize ==
    /\ call.op = "pending" /\ call.fn = "affine_dequantize"
    /\ call' = Done(call, affine_dequantize(call.args.w, call.args.scales,
                              call.args.biases, call.args.group_size,
                              call.args.bits, call.args.device), <<>>)
    /\ UNCHANGED <<custom, ropeS, sdpa, pack, codec, prim, kernel>>

NextDispatch ==
    \/ CallRmsNorm
    \/ CallLayerNorm
    \/ CallRope
    \/ CallQuantize
    \/ CallRequantize
    \/ CallDequantize

SpecDispatch == InitDispatch /\ [][NextDispatch]_vars

\* The inputs the fallback of a call is applied to: the arguments, with an
\* absent layer_norm weight or bias replaced by a scalar of the output type.
FallbackInputs(c) ==
    IF c.fn = "rms_norm" THEN <<c.args.x, c.args.weight>>
    ELSE IF c.fn = "layer_norm"
         THEN LET ot == c.res.ran[1].closure.out_type IN
              <<c.args.x,
                IF c.args.weight.has_value THEN astype(c.args.weight.value, ot)
                ELSE Arr(<<>>, ot),
                IF c.args.bias.has_value THEN astype(c.args.bias.value, ot)
                ELSE Arr(<<>>, ot)>>
    ELSE IF c.fn = "rope" THEN <<c.args.x>>
    ELSE IF c.fn = "affine_quantize" THEN <<c.args.w>>
    ELSE <<c.args.w, c.args.scales, c.args.biases>>

\* C6: for rms_norm, layer_norm, rope, affine_quantize and affine_dequantize,
\* once validation has passed exactly one of two outcomes occurs: on a GPU
\* stream one primitive node holding the fallback is constructed and the
\* fallback is not executed; on any other device the fallback is executed
\* at once on the inputs and no node is constructed.
C6_NodeOrFallback ==
    (call.op = "done" /\ call.fn # "RoPE::vjp" /\ ~call.res.threw) =>
        IF call.args.device = "gpu"
        THEN /\ Len(call.res.nodes) = 1
             /\ call.res.nodes[1].fallback.fn = call.fn
             /\ call.res.nodes[1].stream.device = "gpu"
             /\ call.res.ran = <<>>
        ELSE /\ call.res.nodes = <<>>
             /\ Len(call.res.ran) = 1
             /\ call.res.ran[1].closure.fn = call.fn
             /\ call.res.ran[1].inputs = FallbackInputs(call)

\* C6's case: a validated call on a GPU stream constructed its node and ran
\* nothing.
C6_Witness ==
    /\ call.op = "done" /\ call.fn = "affine_dequantize" /\ ~call.res.threw
    /\ call.args.device = "gpu"
    /\ Len(call.res.nodes) = 1 /\ call.res.ran = <<>>

----------------------------------------------------------------------------
(* The RoPE node and its gradient nodes.                                   *)

MaxChain == 3

InitRopeNode ==
    /\ call \in RopeCalls
    /\ custom = Idle /\ ropeS = Idle /\ sdpa = Idle /\ pack = Idle /\ codec = Idle
    /\ prim = Idle /\ kernel = Idle

\* RoPE::vjp on the latest RoPE node of the chain; the cotangent has the
\* shape and dtype of the node's output.
RoPEVjp ==
    /\ call.op = "done" /\ call.fn \in {"rope", "RoPE::vjp"}
    /\ call.chain # <<>> /\ Len(call.chain) < MaxChain
    /\ LET node == call.chain[Len(call.chain)]
           res == RoPE_vjp(node, node.inputs)
       IN call' = [op |-> "done", fn |-> "RoPE::vjp", args |-> call.args,
                   res |-> res, chain |-> call.chain \o res.nodes]
    /\ UNCHANGED <<custom, ropeS, sdpa, pack, codec, prim, kernel>>

NextRopeNode == CallRope \/ RoPEVjp

SpecRopeNode == InitRopeNode /\ [][NextRopeNode]_vars

SameButDirection(g, n) ==
    /\ g.kind = "RoPE" /\ g.stream = n.stream
    /\ g.dims = n.dims /\ g.traditional = n.traditional /\ g.base = n.base
    /\ g.scale = n.scale /\ g.offset = n.offset
    /\ g.forward = ~n.forward

\* C8: RoPE::vjp returns one output produced by a RoPE node on the same
\* stream with the same dims, traditional, base, scale and offset and with
\* forward negated, whose fallback computes rope with that negated flag;
\* the vjp of the gradient node is a node equivalent to the original one.
C8_GradientIsFlippedRope ==
    (call.op = "done" /\ call.fn \in {"rope", "RoPE::vjp"}) =>
        /\ call.fn = "RoPE::vjp" => Len(call.res.nodes) = 1
        /\ \A i \in 1..(Len(call.chain) - 1) :
               /\ SameButDirection(call.chain[i + 1], call.chain[i])
               /\ call.chain[i + 1].fallback.fn = "rope"
               /\ call.chain[i + 1].fallback.forward = call.chain[i + 1].forward
               /\ call.chain[i + 1].fallback.dims = call.chain[i].dims
               /\ call.chain[i + 1].fallback.traditional = call.chain[i].traditional
               /\ call.chain[i + 1].fallback.base = call.chain[i].base
               /\ call.chain[i + 1].fallback.scale = call.chain[i].scale
               /\ call.chain[i + 1].fallback.offset = call.chain[i].offset
        /\ \A i \in 1..(Len(call.chain) - 2) :
               RoPE_is_equivalent(call.chain[i + 2], call.chain[i])

\* C8's case: the gradient of a gradient node has been taken.
C8_Witness ==
    /\ call.op = "done" /\ call.fn = "RoPE::vjp"
    /\ Len(call.chain) >= 3
    /\ call.chain[2].forward # call.chain[1].forward
    /\ RoPE_is_equivalent(call.chain[3], call.chain[1])

----------------------------------------------------------------------------
(* Shapes, row-major indexing and broadcasting.                            *)

RECURSIVE Prod(_)
Prod(shape) == IF shape = <<>> THEN 1 ELSE shape[1] * Prod(Tail(shape))

\* The multi-index (0-based entries) of flat index i (0-based) in a shape.
Unravel(i, shape) ==
    [k \in 1..Len(shape) |->
        (i \div Prod(SubSeq(shape, k + 1, Len(shape)))) % shape[k]]

RECURSIVE Ravel(_, _)
Ravel(idx, shape) ==
    IF shape = <<>> THEN 0
    ELSE idx[1] * Prod(Tail(shape)) + Ravel(Tail(idx), Tail(shape))

\* A shape padded on the left with 1s to rank n.
PadLeft(shape, n) == [k \in 1..n |-> IF k <= n - Len(shape) THEN 1
                                     ELSE shape[k - (n - Len(shape))]]

\* broadcast_shapes(a, b): [ok |-> FALSE] when the shapes do not broadcast
\* (the operation throws std::invalid_argument).
broadcast_shapes(a, b) ==
    LET n == Max2(Len(a), Len(b))
        pa == PadLeft(a, n)
        pb == PadLeft(b, n)
    IN IF \A k \in 1..n : pa[k] = pb[k] \/ pa[k] = 1 \/ pb[k] = 1
       THEN [ok |-> TRUE, shape |-> [k \in 1..n |-> IF pa[k] = 1 THEN pb[k] ELSE pa[k]]]
       ELSE [ok |-> FALSE]

\* The flat index (0-based) in an operand of shape `shape` of the element
\* that lands at multi-index idx of the broadcast result.
BroadcastFrom(idx, shape) ==
    LET p == PadLeft(shape, Len(idx))
    IN Ravel([k \in 1..Len(idx) |-> IF p[k] = 1 THEN 0 ELSE idx[k]], p)

----------------------------------------------------------------------------
(* scaled_dot_product_attention (fast.cpp 462-605).                        *)
(*                                                                         *)
(* In the fallback a tensor with a feature axis (q, k, v, out) is held by  *)
(* rows: [shape |-> full shape, rows |-> one entry per index of the axes   *)
(* before the last, row-major].  The rows of q, k and v are the tokens     *)
(* <<"q", b, h, l>>, <<"k", b, h, s>>, <<"v", b, h, s>>; a score is the    *)
(* record [q, k, m] of the query row and key row it is the product of and  *)
(* the mask element added to it (<<>> when none); a row of the output is   *)
(* the sequence over s of [score, v].                                      *)

Failed == [ok |-> FALSE]

Rows(name, shape) ==
    [shape |-> shape,
     rows |-> [i \in 1..Prod(SubSeq(shape, 1, Len(shape) - 1)) |->
                  <<name>> \o Unravel(i - 1, SubSeq(shape, 1, Len(shape) - 1))]]

\* The mask, an ordinary tensor: element <<"m", b, h, l, s>>.
MaskElems(shape) == [i \in 1..Prod(shape) |-> <<"m">> \o Unravel(i - 1, shape)]

Front(shape, k) == SubSeq(shape, 1, Len(shape) - k)

\* reshape of a row tensor to a shape with the same last extent.
reshape_rows(t, shape) == [shape |-> shape, rows |-> t.rows]

\* expand_dims(t, 2) of a rank-4 row tensor.
expand_dims_2(t) ==
    [shape |-> <<t.shape[1], t.shape[2], 1, t.shape[3], t.shape[4]>>, rows |-> t.rows]

\* matmul(q, swapaxes(k, -1, -2)): scores [batch.., L, S], the batch axes
\* broadcast; throws when they do not broadcast or the feature extents differ.
matmul_q_kT(q, k) ==
    LET bq == Front(q.shape, 2)
        bk == Front(k.shape, 2)
        bb == broadcast_shapes(bq, bk)
        L == q.shape[Len(q.shape) - 1]
        S == k.shape[Len(k.shape) - 1]
    IN IF ~bb.ok \/ q.shape[Len(q.shape)] # k.shape[Len(k.shape)] THEN Failed
       ELSE LET shape == bb.shape \o <<L, S>> IN
            [ok |-> TRUE, shape |-> shape,
             data |-> [i \in 1..Prod(shape) |->
                 LET idx == Unravel(i - 1, shape)
                     b == SubSeq(idx, 1, Len(bb.shape))
                 IN [q |-> q.rows[BroadcastFrom(b, bq) * L + idx[Len(idx) - 1] + 1],
                     k |-> k.rows[BroadcastFrom(b, bk) * S + idx[Len(idx)] + 1],
                     m |-> <<>>]]]

\* add(scores, mask), broadcasting.
add_mask(scores, mask_shape) ==
    LET bb == broadcast_shapes(scores.shape, mask_shape)
        mask == MaskElems(mask_shape)
    IN IF ~bb.ok THEN Failed
       ELSE [ok |-> TRUE, shape |-> bb.shape,
             data |-> [i \in 1..Prod(bb.shape) |->
                 LET idx == Unravel(i - 1, bb.shape)
                     e == scores.data[BroadcastFrom(idx, scores.shape) + 1]
                 IN [q |-> e.q, k |-> e.k,
                     m |-> mask[BroadcastFrom(idx, mask_shape) + 1]]]]

\* matmul(scores, v): out [batch.., L, Dv] by rows; throws when the batch
\* axes do not broadcast or the contracted extents differ.
matmul_scores_v(scores, v) ==
    LET bs == Front(scores.shape, 2)
        bv == Front(v.shape, 2)
        bb == broadcast_shapes(bs, bv)
        L == scores.shape[Len(scores.shape) - 1]
        S == scores.shape[Len(scores.shape)]
        Sv == v.shape[Len(v.shape) - 1]
    IN IF ~bb.ok \/ S # Sv THEN Failed
       ELSE LET rshape == bb.shape \o <<L>> IN
            [ok |-> TRUE, shape |-> rshape \o <<v.shape[Len(v.shape)]>>,
             rows |-> [i \in 1..Prod(rshape) |->
                 LET idx == Unravel(i - 1, rshape)
                     b == SubSeq(idx, 1, Len(bb.shape))
                 IN [j \in 1..S |->
                        [score |-> scores.data[(BroadcastFrom(b, bs) * L
                                                + idx[Len(idx)]) * S + j],
                         v |-> v.rows[BroadcastFrom(b, bv) * Sv + j]]]]]

\* reshape(out, {B, n_q_heads, L, -1}): the last extent is inferred; rows
\* are regrouped when it is a multiple of the old one (a row of the result
\* is then the sequence of the old rows it is made of).
reshape_out(out, B, n_q_heads, L) ==
    LET total == Prod(out.shape)
        lead == B * n_q_heads * L
        Dv == out.shape[Len(out.shape)]
    IN IF lead = 0 \/ total % lead # 0 THEN Failed
       ELSE LET last == total \div lead
                per == last \div Dv
            IN IF last % Dv # 0 THEN Failed
               ELSE [ok |-> TRUE, shape |-> <<B, n_q_heads, L, last>>,
                     rows |-> [i \in 1..lead |->
                         IF per = 1 THEN out.rows[i]
                         ELSE [j \in 1..per |-> out.rows[(i - 1) * per + j]]]]

\* The fallback closure of scaled_dot_product_attention on {q, k, v[, mask]}
\* (multiplying q by scale and the softmax over the last axis leave the
\* shape and the pairing of rows as they are).
sdpa_fallback(inputs, needs_mask, n_q_heads, n_kv_heads) ==
    LET q0 == Rows("q", inputs[1].shape)
        n_repeats == n_q_heads \div n_kv_heads
        B == q0.shape[1]
        L == q0.shape[3]
        k0 == Rows("k", inputs[2].shape)
        v0 == Rows("v", inputs[3].shape)
        q == IF n_repeats > 1
             THEN reshape_rows(q0, <<B, n_kv_heads, n_repeats, L, q0.shape[4]>>)
             ELSE q0
        k == IF n_repeats > 1 THEN expand_dims_2(k0) ELSE k0
        v == IF n_repeats > 1 THEN expand_dims_2(v0) ELSE v0
        scores0 == matmul_q_kT(q, k)
    IN IF ~scores0.ok THEN Failed
       ELSE LET scores == IF needs_mask THEN add_mask(scores0, inputs[4].shape)
                          ELSE scores0
            IN IF ~scores.ok THEN Failed
               ELSE LET out == matmul_scores_v(scores, v)
                    IN IF ~out.ok THEN Failed
                       ELSE IF n_repeats > 1 THEN reshape_out(out, B, n_q_heads, L)
                       ELSE out

sdpa_supported_mutant(batch_dim, query_head_dim, query_sequence_length, has_mask, n_q_heads, n_kv_heads, final_type, device) ==
    LET supported_head_dim == query_head_dim \in {64, 80, 128}
        supported_head_dim_self_attn == query_head_dim \in {64, 128}
        supports_full_self_attention ==
            /\ query_sequence_length >= 16 /\ ~has_mask
            /\ supported_head_dim_self_attn /\ n_q_heads = n_kv_heads
            /\ final_type # "bfloat16" /\ device = "gpu"
        supports_sdpa ==
            /\ batch_dim = 1 /\ query_sequence_length = 1 /\ ~has_mask
            /\ supported_head_dim /\ final_type # "bfloat16" /\ device = "gpu"
    IN supports_sdpa \/ supports_full_self_attention

\* bool implementation_supports_use_case = supports_sdpa ||
\*   supports_full_self_attention;  implementation_supports_use_case &= false;
sdpa_supported(batch_dim, query_head_dim, query_sequence_length, has_mask, n_q_heads, n_kv_heads, final_type, device) ==
    LET supported_head_dim == query_head_dim \in {64, 80, 128}
        supported_head_dim_self_attn == query_head_dim \in {64, 128}
        supports_full_self_attention ==
            /\ query_sequence_length >= 16 /\ ~has_mask
            /\ supported_head_dim_self_attn /\ n_q_heads = n_kv_heads
            /\ final_type # "bfloat16" /\ device = "gpu"
        supports_sdpa ==
            /\ batch_dim = 1 /\ query_sequence_length = 1 /\ ~has_mask
            /\ supported_head_dim /\ final_type # "bfloat16" /\ device = "gpu"
        implementation_supports_use_case ==
            supports_sdpa \/ supports_full_self_attention
    IN implementation_supports_use_case /\ FALSE

\* The validation of scaled_dot_product_attention: TRUE when a check throws.
sdpa_invalid(queries, keys, values) ==
    IF \E t \in {queries, keys, values} : ndim(t) # 4 THEN TRUE
    ELSE IF \E t \in {keys, values} : t.shape[1] # queries.shape[1] THEN TRUE
    ELSE IF queries.shape[4] # keys.shape[4] THEN TRUE
    ELSE IF keys.shape[2] # values.shape[2] THEN TRUE
    ELSE IF queries.shape[2] % keys.shape[2] # 0 THEN TRUE
    ELSE result_type(result_type(queries.dtype, keys.dtype), values.dtype)
             \notin floating

\* The call: [threw, nodes, ran, out], out the value the fallback returned
\* (Failed when an operation inside it threw; <<>> when it did not run).
scaled_dot_product_attention(queries, keys, values, scale, mask, device) ==
    IF sdpa_invalid(queries, keys, values)
    THEN [threw |-> TRUE, nodes |-> <<>>, ran |-> <<>>, out |-> <<>>]
    ELSE
    LET n_q_heads == queries.shape[2]
        n_kv_heads == keys.shape[2]
        final_type == result_type(result_type(queries.dtype, keys.dtype),
                                  values.dtype)
        q == astype(queries, final_type)
        k == astype(keys, final_type)
        v == astype(values, final_type)
        needs_mask == mask.has_value
        stream == to_stream(device)
        fallback == [fn |-> "scaled_dot_product_attention", scale |-> scale,
                     needs_mask |-> needs_mask, final_type |-> final_type,
                     n_q_heads |-> n_q_heads, n_kv_heads |-> n_kv_heads,
                     s |-> stream]
        inputs == IF mask.has_value THEN <<q, k, v, mask.value>> ELSE <<q, k, v>>
    IN IF sdpa_supported(queries.shape[1], q.shape[4], q.shape[3], mask.has_value,
                         n_q_heads, n_kv_heads, final_type, stream.device)
       THEN [threw |-> FALSE,
             nodes |-> <<[kind |-> "ScaledDotProductAttention", stream |-> stream,
                          fallback |-> fallback, scale |-> scale,
                          needs_mask |-> FALSE, inputs |-> <<q, k, v>>]>>,
             ran |-> <<>>, out |-> <<>>]
       ELSE LET out == sdpa_fallback(inputs, needs_mask, n_q_heads, n_kv_heads)
            IN [threw |-> ~out.ok, nodes |-> <<>>,
                ran |-> <<[closure |-> fallback, inputs |-> inputs]>>,
                out |-> out]

MaxKvHeads == 2
MaxRepeats == 2

SdpaCall(qs, ks, vs, dtype, mask, device) ==
    [op |-> "pending",
     args |-> [queries |-> Arr(qs, dtype), keys |-> Arr(ks, dtype),
               values |-> Arr(vs, dtype), scale |-> 1, mask |-> mask,
               device |-> device]]

\* Well-shaped calls: q [B,Hq,L,D], k [B,Hkv,S,D], v [B,Hkv,S,Dv], Hq a
\* multiple of Hkv, no mask or an additive mask [B,Hq,L,S].
SdpaGoodCalls ==
    UNION {{SdpaCall(<<B, Hkv * r, L, D>>, <<B, Hkv, 2, D>>, <<B, Hkv, 2, 8>>,
                     dtype, mask, d) :
               mask \in {nullopt, Some(Arr(<<B, Hkv * r, L, 2>>, dtype))}} :
           B \in 1..MaxBatch, Hkv \in 1..MaxKvHeads, r \in 1..MaxRepeats,
           L \in {1, 2, 16}, D \in {8, 64, 80, 128},
           dtype \in {"float32", "bfloat16"}, d \in Devices}

\* Calls one check of the validation rejects, and one the validation lets
\* through although k and v differ in sequence length.
SdpaBadCalls ==
    {SdpaCall(qs, ks, vs, dtype, nullopt, d) :
        qs \in {<<1, 2, 2, 8>>, <<2, 2, 8>>},
        ks \in {<<1, 2, 2, 8>>, <<2, 2, 2, 8>>, <<1, 2, 2, 4>>, <<1, 3, 2, 8>>},
        vs \in {<<1, 2, 2, 8>>, <<1, 1, 2, 8>>, <<1, 2, 3, 8>>},
        dtype \in {"float32", "int32"}, d \in Devices}

InitSdpa ==
    /\ sdpa \in SdpaGoodCalls \cup SdpaBadCalls
    /\ custom = Idle /\ call = Idle /\ ropeS = Idle /\ pack = Idle /\ codec = Idle
    /\ prim = Idle /\ kernel = Idle

CallSdpa ==
    /\ sdpa.op = "pending"
    /\ sdpa' = [op |-> "done", args |-> sdpa.args,
                res |-> scaled_dot_product_attention(sdpa.args.queries,
                            sdpa.args.keys, sdpa.args.values, sdpa.args.scale,
                            sdpa.args.mask, sdpa.args.device)]
    /\ UNCHANGED <<custom, call, ropeS, pack, codec, prim, kernel>>

NextSdpa == CallSdpa

SpecSdpa == InitSdpa /\ [][NextSdpa]_vars

\* The inputs of a call are those the claim C9 speaks of.
SdpaWellShaped(a) ==
    /\ ~sdpa_invalid(a.queries, a.keys, a.values)
    /\ a.keys.shape[3] = a.values.shape[3]
    /\ a.mask.has_value =>
           a.mask.value.shape = <<a.queries.shape[1], a.queries.shape[2],
                                  a.queries.shape[3], a.keys.shape[3]>>

\* The row (b, h, l) of the repeated-key reference: query head h attends to
\* key/value head h \div (Hq / Hkv), with mask[b, h, l, s] added to the score.
ReferenceRow(a, b, h, l) ==
    LET n_rep == a.queries.shape[2] \div a.keys.shape[2]
    IN [j \in 1..a.keys.shape[3] |->
           [score |-> [q |-> <<"q", b, h, l>>,
                       k |-> <<"k", b, h \div n_rep, j - 1>>,
                       m |-> IF a.mask.has_value THEN <<"m", b, h, l, j - 1>>
                             ELSE <<>>],
            v |-> <<"v", b, h \div n_rep, j - 1>>]]

\* C9: for every valid q [B,Hq,L,D], k [B,Hkv,S,D], v [B,Hkv,S,Dv] with Hq a
\* multiple of Hkv, with or without a mask [B,Hq,L,S], the fallback returns
\* a tensor of shape [B,Hq,L,Dv] in which query head h attends to key/value
\* head floor(h / (Hq/Hkv)) and mask[b,h,l,s] is added to the score.
C9_GroupedQueryReference ==
    (sdpa.op = "done" /\ SdpaWellShaped(sdpa.args)) =>
        LET a == sdpa.args
            lead == <<a.queries.shape[1], a.queries.shape[2], a.queries.shape[3]>>
        IN /\ ~sdpa.res.threw
           /\ sdpa.res.out.ok
           /\ sdpa.res.out.shape = lead \o <<a.values.shape[4]>>
           /\ \A i \in 1..Prod(lead) :
                  LET idx == Unravel(i - 1, lead)
                  IN sdpa.res.out.rows[i] = ReferenceRow(a, idx[1], idx[2], idx[3])

\* C10: for every input that passes validation, on every device, with or
\* without a mask, no ScaledDotProductAttention node is constructed and the
\* call returns what the fallback gives on (q, k, v[, mask]).
C10_AlwaysFallback ==
    (sdpa.op = "done" /\ ~sdpa_invalid(sdpa.args.queries, sdpa.args.keys,
                                       sdpa.args.values)) =>
        LET a == sdpa.args
            t == result_type(result_type(a.queries.dtype, a.keys.dtype),
                             a.values.dtype)
            qkv == <<astype(a.queries, t), astype(a.keys, t), astype(a.values, t)>>
        IN /\ sdpa.res.nodes = <<>>
           /\ Len(sdpa.res.ran) = 1
           /\ sdpa.res.ran[1].closure.fn = "scaled_dot_product_attention"
           /\ sdpa.res.ran[1].inputs =
                  IF a.mask.has_value THEN Append(qkv, a.mask.value) ELSE qkv

\* C10's case: a call the fast decoding kernel would be eligible for (GPU,
\* batch 1, one query position, head_dim 64, no mask, float32) ran the
\* fallback and constructed no node.
C10_Witness ==
    /\ sdpa.op = "done"
    /\ sdpa.args.device = "gpu" /\ ~sdpa.args.mask.has_value
    /\ sdpa.args.queries.shape[1] = 1 /\ sdpa.args.queries.shape[3] = 1
    /\ sdpa.args.queries.shape[4] = 64 /\ sdpa.args.queries.dtype = "float32"
    /\ sdpa.res.nodes = <<>> /\ Len(sdpa.res.ran) = 1 /\ sdpa.res.out.ok

----------------------------------------------------------------------------
(* Tensors with data, for the quantization fallbacks (fast.cpp 613-860).   *)
(*                                                                         *)
(* A tensor is [ok |-> TRUE, shape, dtype, data], data the elements in     *)
(* row-major order: exact rationals for a floating tensor, limb pairs for  *)
(* a uint32 one, booleans for a comparison.  An operation that throws      *)
(* gives Failed, and an operation on Failed gives Failed.                  *)

Tensor(shape, dtype, data) ==
    [ok |-> TRUE, shape |-> shape, dtype |-> dtype, data |-> data]

\* array(v, dtype): a scalar.
Scalar(v, dtype) == Tensor(<<>>, dtype, <<v>>)

\* The elements of a function over 1..n as a tuple.
Elements(f) == f \o <<>>

\* The element of a one-element set.  An operation below evaluates each of
\* its operands once, as the element of such a set, before it looks at the
\* elements.
The(S) == CHOOSE x \in S : TRUE

\* reshape(t, shape): one extent may be -1; throws when the sizes disagree.
reshape(t, shape) ==
    The({IF ~tv.ok THEN Failed
         ELSE LET known == Prod([k \in 1..Len(shape) |->
                                    IF shape[k] = -1 THEN 1 ELSE shape[k]])
                  size == Len(tv.data)
                  infer == \E k \in 1..Len(shape) : shape[k] = -1
              IN IF infer /\ (known = 0 \/ size % known # 0) THEN Failed
                 ELSE IF ~infer /\ known # size THEN Failed
                 ELSE Tensor([k \in 1..Len(shape) |->
                                 IF shape[k] = -1 THEN size \div known ELSE shape[k]],
                             tv.dtype, tv.data) : tv \in {t}})

\* expand_dims(t, -1)
expand_dims(t) ==
    The({IF ~tv.ok THEN Failed ELSE Tensor(tv.shape \o <<1>>, tv.dtype, tv.data) :
            tv \in {t}})

\* The element-wise operations the fallbacks use, by name.
apply1(op, x) ==
    CASE op = "abs" -> abs(x)
      [] op = "negative" -> negative(x)
      [] op = "round" -> RInt(round(x))

apply2(op, x, y) ==
    CASE op = "add" -> add(x, y)
      [] op = "subtract" -> subtract(x, y)
      [] op = "multiply" -> multiply(x, y)
      [] op = "divide" -> divide(x, y)
      [] op = "maximum" -> maximum(x, y)
      [] op = "minimum" -> minimum(x, y)
      [] op = "greater" -> less(y, x)
      [] op = "equal" -> x = y
      [] op = "not_equal" -> x # y

\* A unary operation, element by element.
unary(op, t) ==
    The({IF ~tv.ok THEN Failed
         ELSE Tensor(tv.shape, tv.dtype,
                     Elements([i \in 1..Len(tv.data) |-> apply1(op, tv.data[i])])) :
            tv \in {t}})

\* A binary operation with broadcasting; throws when the shapes do not
\* broadcast.
binary(op, a, b) ==
    The({IF ~av.ok \/ ~bv.ok THEN Failed
         ELSE The({IF ~bs.ok THEN Failed
                   ELSE Tensor(bs.shape, av.dtype,
                          Elements([i \in 1..Prod(bs.shape) |->
                              The({apply2(op, x, y) :
                                      x \in {av.data[BroadcastFrom(
                                                Unravel(i - 1, bs.shape), av.shape) + 1]},
                                      y \in {bv.data[BroadcastFrom(
                                                Unravel(i - 1, bs.shape), bv.shape) + 1]}})
                              ])) :
                     bs \in {broadcast_shapes(av.shape, bv.shape)}}) :
            av \in {a}, bv \in {b}})

\* where(condition, x, y), the three operands broadcast together.
where(c, x, y) ==
    The({IF ~cv.ok \/ ~xv.ok \/ ~yv.ok THEN Failed
         ELSE The({IF ~cx.ok THEN Failed
              ELSE The({IF ~bs.ok THEN Failed
                   ELSE Tensor(bs.shape, xv.dtype,
                          Elements([i \in 1..Prod(bs.shape) |->
                              The({IF cv.data[BroadcastFrom(idx, cv.shape) + 1]
                                   THEN xv.data[BroadcastFrom(idx, xv.shape) + 1]
                                   ELSE yv.data[BroadcastFrom(idx, yv.shape) + 1] :
                                      idx \in {Unravel(i - 1, bs.shape)}})])) :
                       bs \in {broadcast_shapes(cx.shape, yv.shape)}}) :
                  cx \in {broadcast_shapes(cv.shape, xv.shape)}}) :
            cv \in {c}, xv \in {x}, yv \in {y}})

RECURSIVE reduce_range(_, _, _, _)
reduce_range(op, data, lo, hi) ==
    IF lo = hi THEN data[lo]
    ELSE The({apply2(op, x, y) :
                 x \in {reduce_range(op, data, lo, (lo + hi) \div 2)},
                 y \in {reduce_range(op, data, ((lo + hi) \div 2) + 1, hi)}})

\* max / min over the last axis, keepdims = true.
reduce_last(op, t) ==
    The({IF ~tv.ok THEN Failed
         ELSE Tensor(with_back(tv.shape, 1), tv.dtype,
                Elements([r \in 1..(Len(tv.data) \div last_dim(tv)) |->
                    reduce_range(op, tv.data, (r - 1) * last_dim(tv) + 1,
                                 r * last_dim(tv))])) :
            tv \in {t}})

----------------------------------------------------------------------------
(* The quantization fallbacks on data (fast.cpp 613-634, 680-709, 738-750, *)
(* 819-848).                                                               *)

\* clip(x, lo, hi) on integers.
clip(x, lo, hi) == IF x < lo THEN lo ELSE IF x > hi THEN hi ELSE x

quantize_levels_mutant(packed_w, scales, biases, bits) ==
    The({IF ~x.ok THEN Failed
         ELSE Tensor(x.shape, "uint32",
                Elements([i \in 1..Len(x.data) |->
                    clip(x.data[i][1] \div x.data[i][2], 0, Pow2(bits) - 1)])) :
            x \in {binary("divide", binary("subtract", packed_w, biases), scales)}})

\* astype(clip(round(divide(subtract(packed_w, biases), scales)), zero,
\*             n_bins), uint32): the level of every element.
quantize_levels(packed_w, scales, biases, bits) ==
    The({IF ~x.ok THEN Failed
         ELSE Tensor(x.shape, "uint32",
                Elements([i \in 1..Len(x.data) |->
                    clip(round(x.data[i]), 0, Pow2(bits) - 1)])) :
            x \in {binary("divide", binary("subtract", packed_w, biases), scales)}})

\* The levels reshaped to {packed_w.shape(0), -1, el_per_int} and every row
\* of el_per_int levels summed into one word.
pack_and_quantize(packed_w, scales, biases, group_size, bits) ==
    The({IF ~levels.ok THEN Failed
         ELSE The({IF ~rows.ok THEN Failed
                   ELSE Tensor(<<rows.shape[1], rows.shape[2]>>, "uint32",
                          Elements([j \in 1..(Len(rows.data) \div el_per_int(bits)) |->
                              pack_word(SubSeq(rows.data,
                                               (j - 1) * el_per_int(bits) + 1,
                                               j * el_per_int(bits)), bits)])) :
                     rows \in {reshape(levels,
                                       <<levels.shape[1], -1, el_per_int(bits)>>)}}) :
            levels \in {quantize_levels(packed_w, scales, biases, bits)}})

quantize_fallback_mutant(closure, inputs) ==
    LET group_size == closure.group_size
        bits == closure.bits
        w == inputs[1]
        wshape == with_back(w.shape, -1)
        zero == Scalar(RInt(0), w.dtype)
        n_bins == Scalar(RInt(Pow2(bits) - 1), w.dtype)
        eps == Scalar(Rat(1, 10000000), w.dtype)
    IN
    The({The({The({The({The({The({The({
        <<reshape(packed, wshape), reshape(scales, wshape), reshape(biases, wshape)>> :
            packed \in {pack_and_quantize(packed_w, scales, biases, group_size, bits)}}) :
            scales \in {where(binary("not_equal", q0, zero),
                              binary("divide", edge, q0), scales1)},
            biases \in {where(binary("equal", q0, zero), zero, edge)}}) :
            q0 \in {unary("round", binary("divide", edge, scales1))}}) :
            scales1 \in {where(mask, unary("negative", scales0), scales0)},
            edge \in {where(mask, w_min, w_max)}}) :
            mask \in {binary("greater", unary("abs", w_min), unary("abs", w_max))},
            scales0 \in {binary("maximum",
                            binary("divide", binary("subtract", w_max, w_min), n_bins),
                            eps)}}) :
            w_max \in {reduce_last("maximum", packed_w)},
            w_min \in {reduce_last("minimum", packed_w)}}) :
            packed_w \in {reshape(w, <<-1, last_dim(w) \div group_size, group_size>>)}})

\* The fallback of affine_quantize(w, group_size, bits): <<packed, scales,
\* biases>>.  The statements of the closure, last to first: every
\* intermediate array is computed once and named as in the source (scales0
\* and scales1 are the first two values of the variable scales).
quantize_fallback(closure, inputs) ==
    LET group_size == closure.group_size
        bits == closure.bits
        w == inputs[1]
        wshape == with_back(w.shape, -1)
        zero == Scalar(RInt(0), w.dtype)
        n_bins == Scalar(RInt(Pow2(bits) - 1), w.dtype)
        eps == Scalar(Rat(1, 10000000), w.dtype)
    IN
    The({The({The({The({The({The({The({
        <<reshape(packed, wshape), reshape(scales, wshape), reshape(biases, wshape)>> :
            packed \in {pack_and_quantize(packed_w, scales, biases, group_size, bits)}}) :
            scales \in {where(binary("not_equal", q0, zero),
                              binary("divide", edge, q0), scales1)},
            biases \in {where(binary("equal", q0, zero), zero, edge)}}) :
            q0 \in {unary("round", binary("divide", edge, scales1))}}) :
            scales1 \in {where(mask, scales0, unary("negative", scales0))},
            edge \in {where(mask, w_min, w_max)}}) :
            mask \in {binary("greater", unary("abs", w_min), unary("abs", w_max))},
            scales0 \in {binary("maximum",
                            binary("divide", binary("subtract", w_max, w_min), n_bins),
                            eps)}}) :
            w_max \in {reduce_last("maximum", packed_w)},
            w_min \in {reduce_last("minimum", packed_w)}}) :
            packed_w \in {reshape(w, <<-1, last_dim(w) \div group_size, group_size>>)}})

\* The fallback of affine_quantize(w, scales, biases, group_size, bits).
requantize_fallback(closure, inputs) ==
    The({The({<<reshape(pack_and_quantize(packed_w, scales, biases,
                                          closure.group_size, closure.bits),
                        with_back(w.shape, -1))>> :
                 packed_w \in {reshape(w, <<-1, last_dim(w) \div closure.group_size,
                                            closure.group_size>>)},
                 scales \in {expand_dims(inputs[2])},
                 biases \in {expand_dims(inputs[3])}}) :
            w \in {inputs[1]}})

\* The promotion of unsigned integers (fields of a word) to a floating type.
astype_float(t, dtype) ==
    The({IF ~tv.ok THEN Failed
         ELSE Tensor(tv.shape, dtype,
                     Elements([i \in 1..Len(tv.data) |-> RInt(tv.data[i])])) :
            tv \in {t}})

\* concatenate(parts, -1): the fields of every word, in order.
concatenate_parts(w, bits) ==
    The({Tensor(wv.shape \o <<el_per_int(bits)>>, "uint32",
           Elements([i \in 1..(Len(wv.data) * el_per_int(bits)) |->
               unpack_word(wv.data[((i - 1) \div el_per_int(bits)) + 1],
                           bits)[((i - 1) % el_per_int(bits)) + 1]])) :
            wv \in {w}})

\* The fallback of affine_dequantize; wshape and sshape are the locals of
\* the enclosing call that the closure refers to.
dequantize_fallback(closure, inputs) ==
    The({The({<<IF w_full.ok THEN Tensor(w_full.shape, inputs[2].dtype, w_full.data)
                ELSE Failed>> :
                 w_full \in {reshape(
                     binary("add",
                         binary("multiply",
                             astype_float(
                                 reshape(w_full0,
                                         closure.wshape \o <<closure.group_size>>),
                                 inputs[2].dtype),
                             scales),
                         biases),
                     closure.sshape)}}) :
            w_full0 \in {concatenate_parts(inputs[1], closure.bits)},
            scales \in {expand_dims(inputs[2])},
            biases \in {expand_dims(inputs[3])}})

\* fallback(inputs): the outputs of a closure on data.
Invoke(closure, inputs) ==
    CASE closure.fn = "affine_quantize" -> quantize_fallback(closure, inputs)
      [] closure.fn = "affine_quantize(scales, biases)" ->
             requantize_fallback(closure, inputs)
      [] closure.fn = "affine_dequantize" -> dequantize_fallback(closure, inputs)

----------------------------------------------------------------------------
(* Quantize, re-quantize and dequantize on data (the cpu path).            *)

\* Elements are the integers of -MaxMag..MaxMag; leading extents are at
\* most MaxLead.
MaxMag == 4
MaxLead == 2

\* The smallest accepted last extent: 32 * el_per_int.
MinFeatures(bits) == 32 * el_per_int(bits)

\* A tensor whose groups run through the integers of a range: lo..hi in the
\* groups 1, 4, 7, .., the mirrored range -hi..-lo in the groups 2, 5, ..,
\* and the constant hi in the groups 3, 6, ...
RangeTensor(shape, group_size, lo, hi) ==
    Tensor(shape, "float32",
           Elements([i \in 1..Prod(shape) |->
               LET j == (i - 1) \div group_size
                   e == (i - 1) % group_size
                   a == CASE j % 3 = 0 -> lo [] j % 3 = 1 -> -hi [] OTHER -> hi
                   b == CASE j % 3 = 0 -> hi [] j % 3 = 1 -> -lo [] OTHER -> hi
               IN RInt(a + (e % (b - a + 1)))]))

CodecInput(w, group_size, bits) ==
    [op |-> "input", w |-> w, group_size |-> group_size, bits |-> bits,
     packed |-> <<>>, scales |-> <<>>, biases |-> <<>>, again |-> <<>>,
     w_hat |-> <<>>]

Ranges == {r \in (-MaxMag..MaxMag) \X (-MaxMag..MaxMag) : r[1] <= r[2]}

\* One row of the smallest accepted width, every range, every bit width.
ValueInputs ==
    {CodecInput(RangeTensor(<<1, MinFeatures(c[1])>>, c[2], r[1], r[2]),
                c[2], c[1]) :
        c \in {<<8, 32>>, <<4, 64>>, <<2, 128>>}, r \in Ranges}

CodecShapes ==
    {<<a, MinFeatures(8)>> : a \in 1..MaxLead}
        \cup {<<a, b, MinFeatures(8)>> : a \in 1..MaxLead, b \in 1..MaxLead}

\* Rank 2 and rank 3, every group size, 8 bits.
ShapeInputs ==
    {CodecInput(RangeTensor(shape, g, r[1], r[2]), g, 8) :
        shape \in CodecShapes, g \in {32, 64, 128},
        r \in {<<-MaxMag, MaxMag - 1>>, <<0, MaxMag>>}}

InitCodec ==
    /\ codec \in ValueInputs \cup ShapeInputs
    /\ custom = Idle /\ call = Idle /\ ropeS = Idle /\ sdpa = Idle /\ pack = Idle
    /\ prim = Idle /\ kernel = Idle

\* affine_quantize(w, group_size, bits) on the cpu.
Quantize ==
    /\ codec.op = "input"
    /\ \E r \in {affine_quantize(codec.w, codec.group_size, codec.bits, "cpu")} :
         IF r.threw THEN codec' = [codec EXCEPT !.op = "threw"]
         ELSE \E outs \in {Invoke(r.ran[1].closure, r.ran[1].inputs)} :
                codec' = [codec EXCEPT !.op = "quantized", !.packed = outs[1],
                                       !.scales = outs[2], !.biases = outs[3]]
    /\ UNCHANGED <<custom, call, ropeS, sdpa, pack, prim, kernel>>

\* affine_quantize(w, scales, biases, group_size, bits) on the cpu, with the
\* scales and biases the first call returned.
Requantize ==
    /\ codec.op = "quantized"
    /\ \E r \in {affine_quantize_with(codec.w, codec.scales, codec.biases,
                                      codec.group_size, codec.bits, "cpu")} :
         \E outs \in {Invoke(r.ran[1].closure, r.ran[1].inputs)} :
           codec' = [codec EXCEPT !.op = "requantized", !.again = outs[1]]
    /\ UNCHANGED <<custom, call, ropeS, sdpa, pack, prim, kernel>>

\* affine_dequantize(packed, scales, biases, group_size, bits) on the cpu.
Dequantize ==
    /\ codec.op = "quantized"
    /\ \E r \in {affine_dequantize(codec.packed, codec.scales, codec.biases,
                                   codec.group_size, codec.bits, "cpu")} :
         IF r.threw THEN codec' = [codec EXCEPT !.op = "dequantized", !.w_hat = Failed]
         ELSE \E outs \in {Invoke(r.ran[1].closure, r.ran[1].inputs)} :
                codec' = [codec EXCEPT !.op = "dequantized", !.w_hat = outs[1]]
    /\ UNCHANGED <<custom, call, ropeS, sdpa, pack, prim, kernel>>

NextCodec == Quantize \/ Requantize \/ Dequantize

SpecCodec == InitCodec /\ [][NextCodec]_vars

\* The group (1-based, in the order of scales and biases) of element i.
GroupOf(i) == ((i - 1) \div codec.group_size) + 1

\* |w[i] - w_hat[i]|
RoundTripError(i) == abs(subtract(codec.w.data[i], codec.w_hat.data[i]))

\* The level of element i before clipping: round((w - bias) / scale).
UnclippedLevel(i) ==
    round(divide(subtract(codec.w.data[i], codec.biases.data[GroupOf(i)]),
                 codec.scales.data[GroupOf(i)]))

HalfScale(i) == divide(abs(codec.scales.data[GroupOf(i)]), RInt(2))

\* C2: after quantize then dequantize every element is within |scale|/2 of
\* the original, scale the scale returned for the element's group.
C2_HalfScaleBound ==
    codec.op = "dequantized" =>
        /\ codec.w_hat.ok /\ codec.w_hat.shape = codec.w.shape
        /\ \A i \in 1..Len(codec.w.data) : less_equal(RoundTripError(i), HalfScale(i))

\* C2 as the code has it: an element whose level round((w - bias)/scale)
\* lies in 0..2^bits-1 is within |scale|/2 of the original; an element whose
\* level is clipped to that range is within |scale| of it.
C2_HalfScaleUnlessClipped ==
    codec.op = "dequantized" =>
        /\ codec.w_hat.ok /\ codec.w_hat.shape = codec.w.shape
        /\ \A i \in 1..Len(codec.w.data) :
               IF UnclippedLevel(i) \in 0..(Pow2(codec.bits) - 1)
               THEN less_equal(RoundTripError(i), HalfScale(i))
               ELSE less_equal(RoundTripError(i), abs(codec.scales.data[GroupOf(i)]))

\* C2's case: a round trip in which one element's level was clipped and it
\* came back more than |scale|/2 away, and another, unclipped, came back
\* changed.
C2_Witness ==
    /\ codec.op = "dequantized" /\ codec.w_hat.ok
    /\ \E i \in 1..Len(codec.w.data) :
           /\ UnclippedLevel(i) > Pow2(codec.bits) - 1
           /\ less(HalfScale(i), RoundTripError(i))
    /\ \E i \in 1..Len(codec.w.data) :
           /\ UnclippedLevel(i) \in 0..(Pow2(codec.bits) - 1)
           /\ RoundTripError(i) # RInt(0)

\* C3: re-quantizing w with the scales and biases that affine_quantize
\* returned gives a tensor of the same shape as packed with the same words,
\* for w of any rank >= 2.
C3_RequantizeIdempotent ==
    codec.op = "requantized" =>
        /\ codec.again.ok
        /\ codec.again.shape = codec.packed.shape
        /\ codec.again.data = codec.packed.data

\* The values of the elements of group j of w (integers).
GroupValues(j) ==
    {codec.w.data[i][1] :
        i \in ((j - 1) * codec.group_size + 1)..(j * codec.group_size)}

\* The anchor edge of group j: w_min when it has the larger magnitude,
\* else w_max.
AnchorEdge(j) ==
    LET w_min == CHOOSE m \in GroupValues(j) : \A x \in GroupValues(j) : m <= x
        w_max == CHOOSE m \in GroupValues(j) : \A x \in GroupValues(j) : m >= x
    IN IF Abs(w_min) > Abs(w_max) THEN w_min ELSE w_max

Sign(n) == IF n > 0 THEN 1 ELSE IF n < 0 THEN -1 ELSE 0

\* C18: for every group whose anchor edge is non-zero, the scale that
\* affine_quantize returns for the group has the same sign as the edge.
C18_ScaleHasSignOfEdge ==
    codec.op = "quantized" =>
        \A j \in 1..Len(codec.scales.data) :
            AnchorEdge(j) # 0 => Sign(codec.scales.data[j][1]) = Sign(AnchorEdge(j))

\* C18 as the code has it: for every group whose anchor edge (w_max when
\* the magnitudes are equal) is non-zero, the returned scale is non-zero and
\* its sign is opposite to the edge's, unless all elements of the group are
\* equal and negative: then the scale is negative as well.
C18_ScaleHasOppositeSign ==
    codec.op = "quantized" =>
        /\ Len(codec.scales.data) * codec.group_size = Len(codec.w.data)
        /\ \A j \in 1..Len(codec.scales.data) :
               AnchorEdge(j) # 0 =>
                   /\ codec.scales.data[j][2] > 0
                   /\ Sign(codec.scales.data[j][1]) =
                          IF GroupValues(j) = {AnchorEdge(j)} /\ AnchorEdge(j) < 0
                          THEN -1
                          ELSE 0 - Sign(AnchorEdge(j))

\* C18's case: a quantized tensor with a group anchored at a negative w_min
\* and a group anchored at a positive w_max.
C18_Witness ==
    /\ codec.op = "quantized"
    /\ \E j \in 1..Len(codec.scales.data) :
           AnchorEdge(j) < 0 /\ codec.scales.data[j][1] > 0
    /\ \E j \in 1..Len(codec.scales.data) :
           AnchorEdge(j) > 0 /\ codec.scales.data[j][1] < 0

----------------------------------------------------------------------------
(* Validation of the dispatching operators.                                *)

\* C12: affine_quantize(w, group_size, bits) throws, before a node is
\* constructed or a fallback is run, if and only if group_size is not in
\* {32, 64, 128}, or bits is not in {2, 4, 8}, or w has rank < 2, or the last
\* axis is not divisible by group_size, or the last axis is smaller than
\* 32 * (32 / bits); 32 / bits is never computed with bits = 0.
C12_QuantizeValidation ==
    (call.op = "done" /\ call.fn = "affine_quantize") =>
        LET w == call.args.w
            g == call.args.group_size
            b == call.args.bits
        IN /\ call.res.threw <=>
                  \/ g \notin {32, 64, 128}
                  \/ b \notin {2, 4, 8}
                  \/ Len(w.shape) < 2
                  \/ w.shape[Len(w.shape)] % g # 0
                  \/ w.shape[Len(w.shape)] < 32 * (32 \div b)
           /\ call.res.threw => call.res.nodes = <<>> /\ call.res.ran = <<>>

\* C12's case: supported group size and bits, a matrix wide enough, but a
\* last axis that group_size does not divide: the call threw.
C12_Witness ==
    /\ call.op = "done" /\ call.fn = "affine_quantize"
    /\ call.args.w.shape = <<2, 160>> /\ call.args.group_size = 64
    /\ call.args.bits = 8
    /\ call.res.threw

\* Whether scales or biases do not have the shape that goes with w.
ShapeMismatch(c) ==
    \/ c.args.scales.shape # GroupShape(c.args.w.shape, c.args.group_size)
    \/ c.args.biases.shape # GroupShape(c.args.w.shape, c.args.group_size)

\* C13: affine_quantize(w, scales, biases, group_size, bits) throws and
\* produces nothing (no node, no fallback run) whenever scales or biases do
\* not have one entry per group_size-wide slice of w's last axis or their
\* leading dimensions differ from w's.
C13_RequantizeValidation ==
    (call.op = "done" /\ call.fn = "affine_quantize(scales, biases)"
        /\ ShapeMismatch(call)) =>
        call.res.threw /\ call.res.nodes = <<>> /\ call.res.ran = <<>>

\* C14: affine_dequantize throws and produces nothing (no node, no fallback
\* run) whenever bits <= 0, group_size <= 0, one of w, scales, biases has
\* rank < 2, the leading dimensions of scales or of biases differ from w's,
\* w is not uint32, or w.last * (32 / bits) # scales.last * group_size; when
\* none of these holds the call does not throw.
C14_DequantizeValidation ==
    (call.op = "done" /\ call.fn = "affine_dequantize") =>
        LET w == call.args.w.shape
            sc == call.args.scales.shape
            bi == call.args.biases.shape
            g == call.args.group_size
            b == call.args.bits
        IN /\ call.res.threw <=>
                  \/ b <= 0
                  \/ g <= 0
                  \/ Len(w) < 2 \/ Len(sc) < 2 \/ Len(bi) < 2
                  \/ Front(w, 1) # Front(sc, 1)
                  \/ Front(w, 1) # Front(bi, 1)
                  \/ call.args.w.dtype # "uint32"
                  \/ w[Len(w)] * (32 \div b) # sc[Len(sc)] * g
           /\ call.res.threw => call.res.nodes = <<>> /\ call.res.ran = <<>>

\* C14's case: shapes, bits and group size that go together, but a matrix
\* that is not uint32: the call threw.
C14_Witness ==
    /\ call.op = "done" /\ call.fn = "affine_dequantize"
    /\ call.args.w = Arr(<<2, 32>>, "float32")
    /\ call.args.scales.shape = <<2, 4>> /\ call.args.biases.shape = <<2, 8>>
    /\ call.args.group_size = 32 /\ call.args.bits = 8
    /\ call.res.threw

\* The output type layer_norm computes: the promoted type of x and the
\* weight (and of the bias when both are supplied), the type of x without a
\* weight.
LayerNormOutType(x, weight, bias) ==
    IF ~weight.has_value THEN x.dtype
    ELSE IF ~bias.has_value THEN result_type(x.dtype, weight.value.dtype)
    ELSE result_type(result_type(x.dtype, weight.value.dtype), bias.value.dtype)

\* C15: rms_norm and layer_norm throw, constructing no node and running no
\* fallback, exactly when x has 0 dimensions, a supplied weight or bias is
\* not 1-dimensional, or the computed output type is not floating; an absent
\* weight or bias is not a reason to throw.
C15_NormValidation ==
    /\ (call.op = "done" /\ call.fn = "rms_norm") =>
           /\ call.res.threw <=>
                  \/ Len(call.args.x.shape) = 0
                  \/ Len(call.args.weight.shape) # 1
                  \/ result_type(call.args.x.dtype, call.args.weight.dtype)
                         \notin {"float16", "bfloat16", "float32"}
           /\ call.res.threw => call.res.nodes = <<>> /\ call.res.ran = <<>>
    /\ (call.op = "done" /\ call.fn = "layer_norm") =>
           /\ call.res.threw <=>
                  \/ Len(call.args.x.shape) = 0
                  \/ call.args.weight.has_value
                         /\ Len(call.args.weight.value.shape) # 1
                  \/ call.args.bias.has_value
                         /\ Len(call.args.bias.value.shape) # 1
                  \/ LayerNormOutType(call.args.x, call.args.weight, call.args.bias)
                         \notin {"float16", "bfloat16", "float32"}
           /\ call.res.threw => call.res.nodes = <<>> /\ call.res.ran = <<>>

\* C15's case: layer_norm with a floating x, a 1-D weight and a 2-D bias
\* threw.
C15_Witness ==
    /\ call.op = "done" /\ call.fn = "layer_norm"
    /\ call.args.x = Arr(<<2, 4>>, "float16")
    /\ call.args.weight.has_value /\ Len(call.args.weight.value.shape) = 1
    /\ call.args.bias.has_value /\ Len(call.args.bias.value.shape) = 2
    /\ call.res.threw

----------------------------------------------------------------------------
(* is_equivalent (fast.cpp 154-162, 315-323, 453-459, 607-611).            *)

RMSNorm_is_equivalent(a, other) == a.eps = other.eps

RMSNormVJP_is_equivalent(a, other) == a.eps = other.eps

LayerNorm_is_equivalent(a, other) == a.eps = other.eps

LayerNormVJP_is_equivalent(a, other) == a.eps = other.eps

ScaledDotProductAttention_is_equivalent_mutant(a, other) ==
    a.needs_mask = other.needs_mask

ScaledDotProductAttention_is_equivalent(a, other) ==
    a.needs_mask = other.needs_mask /\ a.scale = other.scale

\* a.is_equivalent(other), dispatched on the kind of a (other is of the
\* same kind: the caller compares the types first).
is_equivalent(a, other) ==
    CASE a.kind = "RMSNorm" -> RMSNorm_is_equivalent(a, other)
      [] a.kind = "RMSNormVJP" -> RMSNormVJP_is_equivalent(a, other)
      [] a.kind = "LayerNorm" -> LayerNorm_is_equivalent(a, other)
      [] a.kind = "LayerNormVJP" -> LayerNormVJP_is_equivalent(a, other)
      [] a.kind = "RoPE" -> RoPE_is_equivalent(a, other)
      [] a.kind = "ScaledDotProductAttention" ->
             ScaledDotProductAttention_is_equivalent(a, other)

NormKinds == {"RMSNorm", "RMSNormVJP", "LayerNorm", "LayerNormVJP"}

\* Nodes of the six kinds; the parameters take a few values each, and a node
\* also has a stream and inputs, which are not parameters.
EquivNodes ==
    {[kind |-> k, stream |-> to_stream(d), eps |-> e, inputs |-> <<Arr(<<n, 4>>, "float32")>>] :
        k \in NormKinds, d \in Devices, e \in {1, 2, 3}, n \in {1, 2}}
    \cup {[kind |-> "RoPE", stream |-> to_stream("gpu"), dims |-> dims,
           traditional |-> tr, base |-> base, scale |-> scale, offset |-> offset,
           forward |-> fw, inputs |-> <<Arr(<<1, 2, 4>>, "float32")>>] :
           dims \in {2, 4}, tr \in BOOLEAN, base \in {500, 10000}, scale \in {1, 2},
           offset \in {0, 3}, fw \in BOOLEAN}
    \cup {[kind |-> "ScaledDotProductAttention", stream |-> to_stream(d),
           scale |-> scale, needs_mask |-> m,
           inputs |-> <<Arr(<<1, 1, 1, 64>>, "float32")>>] :
           d \in Devices, scale \in {1, 2, 3}, m \in BOOLEAN}

InitEquiv ==
    /\ \E a \in EquivNodes : \E other \in {n \in EquivNodes : n.kind = a.kind} :
           prim = [op |-> "pair", a |-> a, other |-> other, res |-> FALSE]
    /\ custom = Idle /\ call = Idle /\ ropeS = Idle /\ sdpa = Idle /\ pack = Idle
    /\ codec = Idle /\ kernel = Idle

IsEquivalent ==
    /\ prim.op = "pair"
    /\ prim' = [prim EXCEPT !.op = "compared",
                            !.res = is_equivalent(prim.a, prim.other)]
    /\ UNCHANGED <<custom, call, ropeS, sdpa, pack, codec, kernel>>

NextEquiv == IsEquivalent

SpecEquiv == InitEquiv /\ [][NextEquiv]_vars

\* The stored operator parameters of a kind of prim.
Parameters(kind) ==
    CASE kind \in NormKinds -> {"eps"}
      [] kind = "RoPE" -> {"dims", "traditional", "base", "scale", "offset", "forward"}
      [] kind = "ScaledDotProductAttention" -> {"scale", "needs_mask"}

\* C11: for two nodes of the same kind, is_equivalent is true exactly when
\* every stored operator parameter of the kind is equal in the two nodes, and
\* false when one of them differs.
C11_EquivalenceIsParameterEquality ==
    prim.op = "compared" =>
        (prim.res <=> \A p \in Parameters(prim.a.kind) : prim.a[p] = prim.other[p])

\* C11's case: two attention nodes that differ in scale only, on different
\* streams, were compared and found not equivalent.
C11_Witness ==
    /\ prim.op = "compared" /\ prim.a.kind = "ScaledDotProductAttention"
    /\ prim.a.scale # prim.other.scale /\ prim.a.needs_mask = prim.other.needs_mask
    /\ prim.a.stream # prim.other.stream
    /\ ~prim.res

----------------------------------------------------------------------------
(* The fallback closures and what they capture (fast.cpp 78, 202, 341,     *)
(* 539, 680, 819).                                                         *)
(*                                                                         *)
(* A closure record holds the values captured by copy.  The locals of the  *)
(* building call that a closure captures by reference are its frame:       *)
(* [alive |-> the call has not returned, refs |-> name :> value]; after    *)
(* the call has returned the references dangle, and what a read or write   *)
(* through them does is undefined.  Outputs are held by shape and type.    *)

\* The names a closure captures by reference.
References(fn) ==
    CASE fn = "affine_dequantize" -> {"wshape", "sshape"}
      [] fn = "scaled_dot_product_attention" -> {"s"}
      [] OTHER -> {}

\* The shape reshape gives an array of `size` elements, or Failed.
reshape_shape(size, shape) ==
    LET unknown == {k \in 1..Len(shape) : shape[k] = -1}
        known == Prod([k \in 1..Len(shape) |->
                          IF shape[k] = -1 THEN 1 ELSE shape[k]])
    IN IF Cardinality(unknown) > 1 THEN Failed
       ELSE IF unknown # {} /\ (known = 0 \/ size % known # 0) THEN Failed
       ELSE IF unknown = {} /\ known # size THEN Failed
       ELSE [ok |-> TRUE,
             shape |-> [k \in 1..Len(shape) |->
                           IF shape[k] = -1 THEN size \div known ELSE shape[k]]]

\* An element-wise binary operation on two arrays held by shape and type.
binary_shape(a, b) ==
    IF ~a.ok \/ ~b.ok THEN Failed
    ELSE LET r == broadcast_shapes(a.shape, b.shape)
         IN IF ~r.ok THEN Failed
            ELSE [ok |-> TRUE, shape |-> r.shape,
                  dtype |-> result_type(a.dtype, b.dtype)]

Ok(a) == [ok |-> TRUE, shape |-> a.shape, dtype |-> a.dtype]

\* The fallback of rms_norm: multiply(inputs[1], x).
rms_norm_fallback(closure, inputs) ==
    <<binary_shape(Ok(inputs[2]), Ok(astype(inputs[1], closure.out_type)))>>

\* The fallback of layer_norm.
layer_norm_fallback(closure, inputs) ==
    LET x == Ok(astype(inputs[1], closure.out_type))
        xw == IF closure.has_weight THEN binary_shape(x, Ok(inputs[2])) ELSE x
    IN <<IF closure.has_bias THEN binary_shape(xw, Ok(inputs[3])) ELSE xw>>

\* The fallback of rope: the result is reshaped to the shape of the input.
rope_fallback_shape(closure, inputs) == <<Ok(inputs[1])>>

\* The fallback of affine_quantize: packed words, scales and biases.
quantize_fallback_shape(closure, inputs) ==
    LET w == inputs[1]
        wshape == with_back(w.shape, -1)
        groups == Prod(w.shape) \div closure.group_size
        words == Prod(w.shape) \div closure.el_per_int
        out(size, dtype) ==
            LET r == reshape_shape(size, wshape)
            IN IF r.ok THEN [ok |-> TRUE, shape |-> r.shape, dtype |-> dtype]
               ELSE Failed
    IN <<out(words, "uint32"), out(groups, w.dtype), out(groups, w.dtype)>>

\* The fallback of affine_dequantize, applied with the vector the reference
\* wshape leads to: the outputs and the vector as the invocation leaves it.
dequantize_fallback_shape(closure, refs, inputs) ==
    LET w == inputs[1]
        size == Prod(w.shape) * closure.el_per_int
        wshape == Append(refs.wshape, closure.group_size)
        r1 == reshape_shape(size, wshape)
        expand(a) == [ok |-> TRUE, shape |-> Append(a.shape, 1), dtype |-> a.dtype]
        w_full == IF ~r1.ok THEN Failed
                  ELSE binary_shape(
                           binary_shape([ok |-> TRUE, shape |-> r1.shape,
                                         dtype |-> w.dtype], expand(inputs[2])),
                           expand(inputs[3]))
        r2 == IF ~w_full.ok THEN Failed
              ELSE reshape_shape(Prod(w_full.shape), refs.sshape)
    IN [outs |-> <<IF r2.ok THEN [ok |-> TRUE, shape |-> r2.shape,
                                  dtype |-> w_full.dtype]
                   ELSE Failed>>,
        refs |-> [refs EXCEPT !.wshape = wshape]]

\* fallback(inputs) with the referenced locals as they are: the outputs and
\* the referenced locals as the invocation leaves them.
invoke_closure(closure, refs, inputs) ==
    CASE closure.fn = "rms_norm" ->
             [outs |-> rms_norm_fallback(closure, inputs), refs |-> refs]
      [] closure.fn = "layer_norm" ->
             [outs |-> layer_norm_fallback(closure, inputs), refs |-> refs]
      [] closure.fn = "rope" ->
             [outs |-> rope_fallback_shape(closure, inputs), refs |-> refs]
      [] closure.fn = "affine_quantize" ->
             [outs |-> quantize_fallback_shape(closure, inputs), refs |-> refs]
      [] closure.fn = "affine_dequantize" ->
             dequantize_fallback_shape(closure, refs, inputs)
      [] closure.fn = "scaled_dot_product_attention" ->
             [outs |-> <<sdpa_fallback(inputs, closure.needs_mask,
                                       closure.n_q_heads, closure.n_kv_heads)>>,
              refs |-> refs]

\* What a dangling reference to a std::vector<int> may lead to: the vector
\* as it was left (the memory was not reused) or other contents.
DanglingVectors(v) == {v, <<>>, <<-1, -1>>}

\* The referenced locals as an invocation may find them.
FoundRefs(fn, frame) ==
    IF frame.alive \/ References(fn) = {} THEN {frame.refs}
    ELSE IF fn = "affine_dequantize"
         THEN {[wshape |-> ws, sshape |-> ss] :
                  ws \in DanglingVectors(frame.refs.wshape),
                  ss \in DanglingVectors(frame.refs.sshape)}
    ELSE {frame.refs}

\* The result of a pending call of a dispatching operator.
CallResult(c) ==
    CASE c.fn = "rms_norm" ->
             rms_norm(c.args.x, c.args.weight, c.args.eps, c.args.device)
      [] c.fn = "layer_norm" ->
             layer_norm(c.args.x, c.args.weight, c.args.bias, c.args.eps,
                        c.args.device)
      [] c.fn = "rope" ->
             rope(c.args.x, c.args.dims, c.args.traditional, c.args.base,
                  c.args.scale, c.args.offset, c.args.forward, c.args.device)
      [] c.fn = "affine_quantize" ->
             affine_quantize(c.args.w, c.args.group_size, c.args.bits,
                             c.args.device)
      [] c.fn = "affine_dequantize" ->
             affine_dequantize(c.args.w, c.args.scales, c.args.biases,
                               c.args.group_size, c.args.bits, c.args.device)
      [] c.fn = "scaled_dot_product_attention" ->
             scaled_dot_product_attention(c.args.queries, c.args.keys,
                 c.args.values, c.args.scale, c.args.mask, c.args.device)

\* The referenced locals when the closure is built.
BuiltRefs(closure) ==
    CASE closure.fn = "affine_dequantize" ->
             [wshape |-> closure.wshape, sshape |-> closure.sshape]
      [] closure.fn = "scaled_dot_product_attention" -> [s |-> closure.s]
      [] OTHER -> <<>>

\* The state of a call that has built its closure and is about to return a
\* node holding it (held) or to run it.
Built(c, res) ==
    LET held == res.nodes # <<>>
        closure == IF held THEN res.nodes[1].fallback ELSE res.ran[1].closure
    IN [op |-> "closure", fn |-> c.fn, closure |-> closure, held |-> held,
        inputs |-> IF held THEN res.nodes[1].inputs ELSE res.ran[1].inputs,
        frame |-> [alive |-> TRUE, refs |-> BuiltRefs(closure)],
        outs |-> <<>>]

MaxInvocations == 3

ClosureCalls ==
    RmsNormCalls \cup LayerNormCalls \cup QuantizeCalls \cup DequantizeCalls
        \cup {c \in RopeCalls : c.args.base = 500 /\ c.args.scale = 1}
        \cup {[op |-> c.op, fn |-> "scaled_dot_product_attention", args |-> c.args] :
                 c \in SdpaGoodCalls}

InitClosure ==
    /\ \E c \in ClosureCalls : \E res \in {CallResult(c)} :
           /\ ~res.threw
           /\ prim = Built(c, res)
    /\ custom = Idle /\ call = Idle /\ ropeS = Idle /\ sdpa = Idle /\ pack = Idle
    /\ codec = Idle /\ kernel = Idle

\* The call runs the closure itself when it builds no node; the node runs
\* the closure it holds, any number of times, after the call has returned.
InvokeFallback ==
    /\ prim.op = "closure"
    /\ IF prim.held THEN ~prim.frame.alive /\ Len(prim.outs) < MaxInvocations
       ELSE prim.frame.alive /\ prim.outs = <<>>
    /\ \E refs \in FoundRefs(prim.closure.fn, prim.frame) :
           \E r \in {invoke_closure(prim.closure, refs, prim.inputs)} :
               prim' = [prim EXCEPT !.outs = Append(@, r.outs),
                                    !.frame.refs = r.refs]
    /\ UNCHANGED <<custom, call, ropeS, sdpa, pack, codec, kernel>>

\* The building call returns: its locals are gone.
ReturnFromCall ==
    /\ prim.op = "closure" /\ prim.frame.alive
    /\ prim.held \/ Len(prim.outs) = 1
    /\ prim' = [prim EXCEPT !.frame.alive = FALSE]
    /\ UNCHANGED <<custom, call, ropeS, sdpa, pack, codec, kernel>>

NextClosure ==
    \/ InvokeFallback
    \/ ReturnFromCall

SpecClosure == InitClosure /\ [][NextClosure]_vars

\* C16: a fallback closure captures by value and modifies nothing it
\* captured, so all invocations of one closure on the same inputs, also
\* those after the building call has returned, yield the same outputs.
C16_ClosuresRepeatable ==
    prim.op = "closure" =>
        \A i, j \in 1..Len(prim.outs) : prim.outs[i] = prim.outs[j]

----------------------------------------------------------------------------
(* The custom kernel (fast.cpp 862-889, python/src/fast.cpp 173-197).      *)
(*                                                                         *)
(* A std::map with string keys is a function on a set of ranks: key k is   *)
(* the k-th name in the order of the map.  template_args is the set of the *)
(* pairs <<name, value>> it holds.                                         *)

\* custom_kernel on a device that is not a gpu: control reaches the end of
\* a function that returns a value without a return statement.  Nothing is
\* thrown; the caller gets an indeterminate value or the program stops.
OffTheEnd == {"returned indeterminate value", "terminated"}

\* custom_kernel(inputs, source, output_shapes, output_dtypes, ..., s): the
\* node built, the outputs returned, how the call ended.
custom_kernel(inputs, source, output_shapes, output_dtypes, device, outcome) ==
    LET s == to_stream(device) IN
    IF s.device = "gpu"
    THEN LET in_arrs == [k \in 1..Len(inputs) |-> inputs[k]]
             out_shapes == [k \in 1..Len(output_shapes) |-> output_shapes[k]]
             out_dtypes == [k \in 1..Len(output_shapes) |-> output_dtypes[k]]
             node == [kind |-> "CustomKernel", stream |-> s, source |-> source,
                      inputs |-> in_arrs]
         IN [ended |-> "returned", nodes |-> <<node>>,
             outputs |-> [k \in 1..Len(out_shapes) |->
                             Arr(out_shapes[k], out_dtypes[k])]]
    ELSE [ended |-> outcome, nodes |-> <<>>, outputs |-> <<>>]

\* The values a keyword argument of template() may have.
TemplateValues ==
    {[type |-> "bool", v |-> "True"], [type |-> "int", v |-> "3"],
     [type |-> "Dtype", v |-> "float32"], [type |-> "str", v |-> "x"],
     [type |-> "float", v |-> "0.5"]}

RECURSIVE template_loop(_, _)
\* for (auto kv : kwargs): insert a bool, an int or a Dtype, throw for
\* anything else.
template_loop(template_args, kwargs) ==
    IF kwargs = <<>> THEN [template_args |-> template_args, raised |-> FALSE]
    ELSE LET name == kwargs[1][1]
             value == kwargs[1][2]
         IN IF value.type \in {"bool", "int", "Dtype"}
            THEN template_loop(
                     IF \E kv \in template_args : kv[1] = name THEN template_args
                     ELSE template_args \cup {<<name, value>>},
                     Tail(kwargs))
            ELSE [template_args |-> template_args, raised |-> TRUE]

\* kernel.template(**kwargs): template_args is cleared, then filled.
template(kwargs) == template_loop({}, kwargs)

MaxTemplateCalls == 3

\* Keyword arguments: distinct names, in the order they were written.
Kwargs ==
    {<<>>} \cup {<<<<"a", v>>>> : v \in TemplateValues}
        \cup {<<<<n[1], v>>, <<n[2], w>>>> :
                 n \in {<<"a", "b">>, <<"b", "a">>},
                 v \in TemplateValues, w \in TemplateValues}

OutputDeclarations ==
    {[shapes |-> sh, dtypes |-> dt] :
        sh \in {<<>>, <<<<2, 4>>>>, <<<<2, 4>>, <<8>>>>, <<<<1>>, <<2, 2>>, <<3>>>>},
        dt \in {<<>>, <<"float32">>, <<"float32", "uint32">>,
                <<"int32", "float16", "float32">>}}

\* The kernel after construction: no template arguments, nothing called.
InitKernel ==
    /\ kernel = [op |-> "kernel", template_args |-> {}, before |-> {},
                 last_ok |-> {}, raised |-> FALSE, calls |-> 0, res |-> <<>>]
    /\ custom = Idle /\ call = Idle /\ ropeS = Idle /\ sdpa = Idle /\ pack = Idle
    /\ codec = Idle /\ prim = Idle

\* kernel.template(**kwargs); before and last_ok record the template_args
\* before the call and the arguments of the last call that did not raise.
Template ==
    /\ kernel.op = "kernel" /\ kernel.calls < MaxTemplateCalls
    /\ \E kwargs \in Kwargs : \E r \in {template(kwargs)} :
           kernel' = [kernel EXCEPT
                         !.template_args = r.template_args,
                         !.before = kernel.template_args,
                         !.raised = r.raised,
                         !.last_ok = IF r.raised THEN @
                                     ELSE {<<kwargs[k][1], kwargs[k][2]>> :
                                              k \in 1..Len(kwargs)},
                         !.calls = @ + 1,
                         !.res = <<>>]
    /\ UNCHANGED <<custom, call, ropeS, sdpa, pack, codec, prim>>

\* custom_kernel with one declared shape and dtype for every output name.
CallCustomKernel ==
    /\ kernel.op = "kernel"
    /\ \E d \in Devices, decl \in OutputDeclarations, outcome \in OffTheEnd :
           /\ Len(decl.shapes) = Len(decl.dtypes)
           /\ kernel' = [kernel EXCEPT !.res =
                  <<[device |-> d, declared |-> decl,
                     res |-> custom_kernel(<<Arr(<<2, 4>>, "float32")>>, "source",
                                           decl.shapes, decl.dtypes, d, outcome)]>>]
    /\ UNCHANGED <<custom, call, ropeS, sdpa, pack, codec, prim>>

NextKernel ==
    \/ Template
    \/ CallCustomKernel

SpecKernel == InitKernel /\ [][NextKernel]_vars

\* C17: on a GPU stream custom_kernel constructs one CustomKernel node and
\* returns one output per declared name with the shape and dtype declared
\* under that name; on any other device it constructs no node, returns no
\* outputs and the call ends in a reported failure.
C17_GpuOnly ==
    (kernel.op = "kernel" /\ kernel.res # <<>>) =>
        LET c == kernel.res[1] IN
        IF c.device = "gpu"
        THEN /\ Len(c.res.nodes) = 1 /\ c.res.nodes[1].kind = "CustomKernel"
             /\ Len(c.res.outputs) = Len(c.declared.shapes)
             /\ \A k \in 1..Len(c.res.outputs) :
                    c.res.outputs[k] = Arr(c.declared.shapes[k], c.declared.dtypes[k])
        ELSE /\ c.res.nodes = <<>> /\ c.res.outputs = <<>>
             /\ c.res.ended = "threw"

\* C20: template(**kwargs) does not partially mutate: when a call raises,
\* template_args is what it was before the call, and after any sequence of
\* calls template_args is the arguments of the last call that succeeded.
C20_TemplateAllOrNothing ==
    (kernel.op = "kernel" /\ kernel.calls > 0) =>
        /\ kernel.raised => kernel.template_args = kernel.before
        /\ kernel.template_args = kernel.last_ok

----------------------------------------------------------------------------
(* LayerNorm::vjp (fast.cpp 241-313).  Arrays are held by shape and type.  *)

\* sum(a, axes, keepdims = false) over the first n axes.
sum_leading(a, n) ==
    IF ~a.ok THEN Failed
    ELSE [ok |-> TRUE, shape |-> SubSeq(a.shape, n + 1, Len(a.shape)),
          dtype |-> a.dtype]

\* sum(a, -1, keepdims = true)
sum_last_keepdims(a) ==
    IF ~a.ok THEN Failed
    ELSE IF a.shape = <<>> THEN a
    ELSE [ok |-> TRUE, shape |-> with_back(a.shape, 1), dtype |-> a.dtype]

\* The fallback of the LayerNormVJP node on (x, w, b, g): df/dx, df/dw,
\* df/db.
layer_norm_vjp_fallback(closure, inputs) ==
    LET x == Ok(inputs[1])
        w == Ok(inputs[2])
        b == Ok(inputs[3])
        g == Ok(inputs[4])
        norm == [ok |-> TRUE, shape |-> <<>>, dtype |-> x.dtype]
        sumx == sum_last_keepdims(x)
        sumx2 == sum_last_keepdims(x)
        mu == binary_shape(sumx, norm)
        mu2 == binary_shape(sumx2, norm)
        var == binary_shape(mu2, mu)
        n == binary_shape(var, norm)
        n3 == binary_shape(n, norm)
        x_c == binary_shape(x, mu)
        wg == binary_shape(w, g)
        sumwg == binary_shape(sum_last_keepdims(wg), norm)
        sumwgxc == binary_shape(sum_last_keepdims(binary_shape(wg, x_c)), norm)
        t1 == binary_shape(binary_shape(x_c, sumwgxc), n3)
        t2 == binary_shape(binary_shape(wg, sumwg), n)
        axes == Len(inputs[4].shape) - 1
    IN <<binary_shape(t2, t1),
         IF Len(inputs[2].shape) = 0 THEN w
         ELSE sum_leading(binary_shape(g, binary_shape(x_c, n)), axes),
         IF Len(inputs[3].shape) = 0 THEN w
         ELSE sum_leading(g, axes)>>

\* LayerNorm::vjp: the gradient node, its declared outputs and the ones
\* returned for argnums (0-based).
LayerNorm_vjp(node, primals, cotangents, argnums) ==
    LET s == node.stream
        fallback == [fn |-> "LayerNorm::vjp", eps |-> node.eps, s |-> s]
        vjps == [k \in 1..3 |-> Arr(primals[k].shape, primals[k].dtype)]
    IN [node |-> [kind |-> "LayerNormVJP", stream |-> s, fallback |-> fallback,
                  eps |-> node.eps,
                  inputs |-> <<primals[1], primals[2], primals[3], cotangents[1]>>],
        outputs |-> vjps,
        returned_vjps |-> [k \in 1..Len(argnums) |-> vjps[argnums[k] + 1]]]

\* The LayerNorm nodes that layer_norm builds on a gpu stream, with the
\* weight and the bias supplied or not.
NormVjpCalls ==
    {[x |-> Arr(xs, "float16"), weight |-> w, bias |-> b] :
        xs \in {<<4>>, <<2, 4>>, <<1, 2, 4>>},
        w \in {nullopt, Some(Arr(<<4>>, "float16"))},
        b \in {nullopt, Some(Arr(<<4>>, "float16"))}}

\* Lists of distinct argument numbers.
Argnums == {a \in SeqsUpTo({0, 1, 2}, 3) : Injective(a)}

InitNormVjp ==
    /\ \E c \in NormVjpCalls, argnums \in Argnums :
           \E res \in {layer_norm(c.x, c.weight, c.bias, 1, "gpu")} :
               prim = [op |-> "LayerNorm", args |-> c, node |-> res.nodes[1],
                       argnums |-> argnums, vjp |-> <<>>, computed |-> <<>>]
    /\ custom = Idle /\ call = Idle /\ ropeS = Idle /\ sdpa = Idle /\ pack = Idle
    /\ codec = Idle /\ kernel = Idle

\* node.vjp(primals, {cotangent}, argnums, outputs): the primals are the
\* inputs of the node, the cotangent has the shape of the output.
LayerNormVjp ==
    /\ prim.op = "LayerNorm"
    /\ prim' = [prim EXCEPT !.op = "LayerNormVJP",
                   !.vjp = <<LayerNorm_vjp(prim.node, prim.node.inputs,
                                           <<prim.node.inputs[1]>>, prim.argnums)>>]
    /\ UNCHANGED <<custom, call, ropeS, sdpa, pack, codec, kernel>>

\* The gradient node is evaluated with its fallback.
EvalNormVjp ==
    /\ prim.op = "LayerNormVJP"
    /\ prim' = [prim EXCEPT !.op = "evaluated",
                   !.computed = layer_norm_vjp_fallback(prim.vjp[1].node.fallback,
                                                        prim.vjp[1].node.inputs)]
    /\ UNCHANGED <<custom, call, ropeS, sdpa, pack, codec, kernel>>

NextNormVjp ==
    \/ LayerNormVjp
    \/ EvalNormVjp

SpecNormVjp == InitNormVjp /\ [][NextNormVjp]_vars

\* C19: the three gradients the LayerNormVJP fallback computes have the
\* shapes of the x, weight and bias inputs, which are the shapes declared
\* for the outputs of the gradient node, whether weight and bias were
\* supplied or replaced by scalars; and LayerNorm::vjp returns for each k
\* the gradient for input argnums[k].
C19_GradientShapes ==
    /\ prim.op \in {"LayerNormVJP", "evaluated"} =>
           /\ Len(prim.vjp[1].returned_vjps) = Len(prim.argnums)
           /\ \A k \in 1..Len(prim.argnums) :
                  prim.vjp[1].returned_vjps[k] =
                      prim.vjp[1].outputs[prim.argnums[k] + 1]
           /\ \A k \in 1..3 :
                  prim.vjp[1].outputs[k].shape = prim.node.inputs[k].shape
    /\ prim.op = "evaluated" =>
           \A k \in 1..3 :
               /\ prim.computed[k].ok
               /\ prim.computed[k].shape = prim.node.inputs[k].shape
               /\ prim.computed[k].shape = prim.vjp[1].outputs[k].shape

InitAll ==
    /\ custom = Idle
    /\ call = Idle
    /\ ropeS = Idle
    /\ sdpa = Idle
    /\ pack = Idle
    /\ codec = Idle
    /\ prim = Idle
    /\ kernel = Idle

NextCustom == CustomVjp \/ CustomJvp

SpecCustom == InitAll /\ [][NextCustom]_vars

\* C4: Custom::vjp returns exactly |argnums| gradients, the k-th being the
\* fallback's gradient with respect to input argnums[k], for every list of
\* distinct valid indices in any order.
C4_VjpSelectsRequested ==
    custom.op = "vjp" =>
        /\ Len(custom.outs) = Len(custom.argnums)
        /\ \A k \in 1..Len(custom.argnums) :
               k <= Len(custom.outs) => custom.outs[k] = <<"grad", custom.argnums[k]>>

\* C5: Custom::jvp uses, for input i, tangents[k] when i = argnums[k] and a
\* zero tensor shaped like primals[i] exactly when i is not in argnums; every
\* supplied tangent is used once.
C5_JvpTangentPerPrimal ==
    custom.op = "jvp" =>
        /\ Len(custom.outs) = custom.n
        /\ \A i \in 0..(custom.n - 1) :
               custom.outs[i + 1] =
                   IF \E k \in 1..Len(custom.argnums) : custom.argnums[k] = i
                   THEN <<"tan", (CHOOSE k \in 1..Len(custom.argnums) :
                                      custom.argnums[k] = i) - 1>>
                   ELSE <<"zeros", i>>
        /\ \A k \in 0..(Len(custom.argnums) - 1) :
               Cardinality({i \in 1..Len(custom.outs) :
                                custom.outs[i] = <<"tan", k>>}) = 1

====
